---- MODULE Spec2Model ----
(***************************************************************************)
(* PassTek: the analysis engine (package analysis), the helpers of package *)
(* utils it calls, and the part of main that drives them.                  *)
(*                                                                         *)
(* A string is a sequence of characters (runes).  A Go map is a function   *)
(* with a finite domain.  A float64 x that carries a percentage or a score *)
(* is the integer 1000 * x (thousandths).                                  *)
(***************************************************************************)
EXTENDS Integers, Sequences, FiniteSets, TLC

VARIABLES
    pc,                 \* position of main: start, analyzed, hashed, risk, fatal
    passwordFile,       \* lines of the -p file, as bufio.Scanner yields them
    minCharOccurences,  \* the -min flag
    hashFile,           \* lines of the -H file, or NoFile when -H is not given
    locale,             \* what lang/<lang>.json was found to be: ok, missing, malformed
    data,               \* main's data.Stats
    err,                \* the error main stopped on, "" when none
    rerun,              \* TokenCount of each completed AnalyzePasswords run
    token,              \* input of Unleet
    unleeted,           \* results of the successive applications of Unleet
    percentages,        \* input of EvaluateRisk (thousandths of a percent)
    risk,               \* what EvaluateRisk returned, or NoRisk
    percentPart,        \* argument part of Percent
    percentTotal,       \* argument total of Percent
    percentResult,      \* what Percent returned (thousandths), -1 before the call
    mergeEntities,      \* the slice entities of MergeIntoSmaller
    mergeSkip,          \* the indices i with skip[i] set
    mergeI,             \* the index i of the outer loop of MergeIntoSmaller, 0 before the call
    truncCounts,        \* the map truncatedCounts of AnalyzePasswords, empty until it is built
    outputTypes,        \* the -f flag
    top,                \* the -top flag
    outputs,            \* the output types the loop of main has still to go through
    files,              \* the files on disk: tmp-<lang>.json and those of the output directory
    report,             \* what ToText has written to report.txt, or NoReport
    calls               \* the calls the current case of the switch of main has still to make

vars == <<pc, passwordFile, minCharOccurences, hashFile, locale, data, err,
          rerun, token, unleeted, percentages, risk,
          percentPart, percentTotal, percentResult, mergeEntities, mergeSkip, mergeI,
          truncCounts, outputTypes, top, outputs, files, report, calls>>

\* The variables of the calls of Percent and of MergeIntoSmaller on their own.
percentVars == <<percentPart, percentTotal, percentResult>>
mergeVars == <<mergeEntities, mergeSkip, mergeI>>

\* The variables of AnalyzePasswords taken step by step.
scanVars == <<truncCounts>>

\* Their values while no such call is made.
NoPercent == percentPart = 0 /\ percentTotal = 0 /\ percentResult = -1
NoMerge == mergeEntities = <<>> /\ mergeSkip = {} /\ mergeI = 0
NoScan == truncCounts = <<>>

\* The variables of the part of main that writes the reports.
outVars == <<outputTypes, top, outputs, files, report, calls>>

NoReport == [lengths |-> <<>>, words |-> <<>>, patterns |-> <<>>, reuse |-> <<>>]
NoOutput ==
    /\ outputTypes = <<>>
    /\ top = 0
    /\ outputs = <<>>
    /\ files = {}
    /\ report = NoReport
    /\ calls = <<>>

(***************************************************************************)
(* Bounds of the model.                                                    *)
(***************************************************************************)
MaxLines == 3        \* lines of a password file
MaxMin == 5          \* largest -min value tried (smallest is 4)
MaxRecords == 2      \* lines of a hash file
MaxTokenLen == 2     \* characters of an Unleet input
MaxPercentages == 3  \* arguments of EvaluateRisk

(***************************************************************************)
(* Characters.                                                             *)
(***************************************************************************)
LowerLetters == <<"a", "b", "c", "d", "e", "f", "g", "h", "i", "j", "k", "l", "m",
                  "n", "o", "p", "q", "r", "s", "t", "u", "v", "w", "x", "y", "z">>
UpperLetters == <<"A", "B", "C", "D", "E", "F", "G", "H", "I", "J", "K", "L", "M",
                  "N", "O", "P", "Q", "R", "S", "T", "U", "V", "W", "X", "Y", "Z">>
AsciiLower == {LowerLetters[k] : k \in 1..26}
AsciiUpper == {UpperLetters[k] : k \in 1..26}
AsciiDigit == {"0", "1", "2", "3", "4", "5", "6", "7", "8", "9"}
AsciiOther == {"$", "!", "|", "@", "#"}
\* The accented letters of leetMap (e-acute, e-grave, a-grave, u-grave,
\* c-cedilla, i-diaeresis), written in ASCII; each is two bytes of UTF-8.
Accented == {"e'", "e-", "a-", "u-", "c,", "i:"}
Chars == AsciiLower \cup AsciiUpper \cup AsciiDigit \cup AsciiOther \cup Accented

\* Bytes of the UTF-8 encoding of one character.
RuneLen(r) == IF r \in Accented THEN 2 ELSE 1

\* Go's len(string): the number of bytes, one for each character and one more
\* for each character of two bytes.
len(s) == Len(s) + Cardinality({k \in 1..Len(s) : RuneLen(s[k]) = 2})

IsUpper(r) == r \in AsciiUpper
IsLower(r) == r \in AsciiLower \cup Accented
IsDigit(r) == r \in AsciiDigit

classifyChar(r) ==
    CASE IsUpper(r) -> "u"
      [] IsLower(r) -> "l"
      [] IsDigit(r) -> "d"
      [] OTHER -> "s"

ToLowerRune(r) ==
    IF r \in AsciiUpper
    THEN LowerLetters[CHOOSE k \in 1..26 : UpperLetters[k] = r]
    ELSE r

ToLower(s) == [k \in 1..Len(s) |-> ToLowerRune(s[k])]

ToUpperRune(r) ==
    IF r \in AsciiLower
    THEN UpperLetters[CHOOSE k \in 1..26 : LowerLetters[k] = r]
    ELSE r

\* The upper-case spelling of a hexadecimal digest.
ToUpper(s) == [k \in 1..Len(s) |-> ToUpperRune(s[k])]

(***************************************************************************)
(* Go maps with int values.                                                *)
(***************************************************************************)
EmptyMap == <<>>

\* m[k] read from a Go map: the zero value when k is absent.
Get(m, k) == IF k \in DOMAIN m THEN m[k] ELSE 0

\* m[k] += n
Add(m, k, n) == IF k \in DOMAIN m THEN [m EXCEPT ![k] = @ + n] ELSE m @@ (k :> n)

Restrict(m, S) == [k \in S |-> m[k]]

RECURSIVE SumMap(_)
SumMap(m) ==
    IF DOMAIN m = {} THEN 0
    ELSE LET k == CHOOSE x \in DOMAIN m : TRUE
         IN m[k] + SumMap(Restrict(m, DOMAIN m \ {k}))

Min(S) == CHOOSE x \in S : \A y \in S : x <= y

(***************************************************************************)
(* Token extraction and leet normalisation.                                *)
(***************************************************************************)
TokenMinRun == 4

\* The character class of tokenRegex: [A-Za-z01345$!|@e'].
InTokenClass(r) ==
    r \in AsciiLower \cup AsciiUpper \cup {"0", "1", "3", "4", "5", "$", "!", "|", "@", "e'"}

\* tokenRegex.FindAllString(line, -1): the maximal runs of at least 4 characters
\* of the class, left to right.  A run starts at a character of the class that
\* follows none, and the greedy match takes it to its end.
FindAllString(line) ==
    LET InClass(i) == InTokenClass(line[i])
        starts == {i \in 1..Len(line) : InClass(i) /\ (i = 1 \/ ~InClass(i - 1))}
        ends == {j \in 1..Len(line) : InClass(j) /\ (j = Len(line) \/ ~InClass(j + 1))}
        EndOf(i) == Min({j \in ends : j >= i})
        matches == {i \in starts : EndOf(i) - i + 1 >= TokenMinRun}
        Nth(n) == CHOOSE i \in matches : Cardinality({k \in matches : k < i}) = n - 1
    IN [n \in 1..Cardinality(matches) |-> SubSeq(line, Nth(n), EndOf(Nth(n)))]

\* leetMap with a replacement that is itself a key ("4" gives "@").
leetMapChained ==
    ("0" :> "o") @@ ("1" :> "i") @@ ("3" :> "e") @@ ("4" :> "@") @@ ("5" :> "s") @@
    ("$" :> "s") @@ ("!" :> "i") @@ ("|" :> "i") @@ ("@" :> "a") @@
    ("e'" :> "e") @@ ("e-" :> "e") @@ ("a-" :> "a") @@ ("u-" :> "u") @@
    ("c," :> "c") @@ ("i:" :> "i")

leetMap ==
    ("0" :> "o") @@ ("1" :> "i") @@ ("3" :> "e") @@ ("4" :> "a") @@ ("5" :> "s") @@
    ("$" :> "s") @@ ("!" :> "i") @@ ("|" :> "i") @@ ("@" :> "a") @@
    ("e'" :> "e") @@ ("e-" :> "e") @@ ("a-" :> "a") @@ ("u-" :> "u") @@
    ("c," :> "c") @@ ("i:" :> "i")

UnleetWith(table, tk) ==
    [k \in 1..Len(tk) |-> IF tk[k] \in DOMAIN table THEN table[tk[k]] ELSE tk[k]]

Unleet(tk) == UnleetWith(leetMap, tk)

TruncateMinLen == 5

truncateLeetSuffix(tk) ==
    IF len(tk) < TruncateMinLen THEN tk
    ELSE IF RuneLen(tk[Len(tk)]) = 1 /\ tk[Len(tk)] \in {"i", "e", "a", "s", "o"}
         THEN SubSeq(tk, 1, Len(tk) - 1)
         ELSE tk

(***************************************************************************)
(* Ranking and consolidation of a token histogram.                         *)
(***************************************************************************)
Entry(k, v) == [Key |-> k, Value |-> v]

\* Every order sort.Slice can leave the entries of m in: descending by Value,
\* entries with equal values in any order (map iteration order is unspecified
\* and the sort is not stable).
SortMapByValueDesc(m) ==
    LET n == Cardinality(DOMAIN m)
        orders == {s \in [1..n -> DOMAIN m] : \A i, j \in 1..n : i # j => s[i] # s[j]}
    IN {[i \in 1..n |-> Entry(s[i], m[s[i]])] : s \in
           {o \in orders : \A i, j \in 1..n : i < j => m[o[i]] >= m[o[j]]}}

\* strings.Contains(s, sub)
Contains(s, sub) ==
    \E k \in 0..(Len(s) - Len(sub)) : SubSeq(s, k + 1, k + Len(sub)) = sub

\* MergeTargets with the inner loop started at i + 1.
MergeTargetsAfter(entities, skip, i) ==
    {j \in 1..Len(entities) :
        j > i /\ j \notin skip /\ Contains(entities[i].Key, entities[j].Key)}

\* MergeTargets with the test turned round: the entries whose key contains that
\* of entry i.
MergeTargetsContaining(entities, skip, i) ==
    {j \in 1..Len(entities) :
        j # i /\ j \notin skip /\ Contains(entities[j].Key, entities[i].Key)}

\* MergeTargets without the test of skip[j].
MergeTargetsAbsorbedToo(entities, skip, i) ==
    {j \in 1..Len(entities) : j # i /\ Contains(entities[i].Key, entities[j].Key)}

\* MergeTargets with the inner loop stopped at i: only the entries ranked before
\* entry i are looked at.
MergeTargetsBefore(entities, skip, i) ==
    {j \in 1..Len(entities) :
        j < i /\ j \notin skip /\ Contains(entities[i].Key, entities[j].Key)}

\* The inner loop of MergeIntoSmaller for entry i: the indices j that i can be
\* merged into.
MergeTargets(entities, skip, i) ==
    {j \in 1..Len(entities) :
        j # i /\ j \notin skip /\ Contains(entities[i].Key, entities[j].Key)}

RECURSIVE MergeLoopNoBreak(_, _, _)
\* MergeLoop without the break: entry i is added to every entry it contains.
MergeLoopNoBreak(entities, skip, i) ==
    IF i > Len(entities) THEN [entities |-> entities, skip |-> skip]
    ELSE IF i \in skip \/ MergeTargets(entities, skip, i) = {}
         THEN MergeLoopNoBreak(entities, skip, i + 1)
         ELSE MergeLoopNoBreak(
                  [j \in 1..Len(entities) |->
                      IF j \in MergeTargets(entities, skip, i)
                      THEN [entities[j] EXCEPT !.Value = @ + entities[i].Value]
                      ELSE entities[j]],
                  skip \cup {i}, i + 1)

RECURSIVE MergeLoop(_, _, _)
MergeLoop(entities, skip, i) ==
    IF i > Len(entities) THEN [entities |-> entities, skip |-> skip]
    ELSE IF i \in skip \/ MergeTargets(entities, skip, i) = {}
         THEN MergeLoop(entities, skip, i + 1)
         ELSE LET j == Min(MergeTargets(entities, skip, i))
              IN MergeLoop([entities EXCEPT ![j].Value = @ + entities[i].Value],
                           skip \cup {i}, i + 1)

RECURSIVE Remaining(_, _, _)
Remaining(entities, skip, i) ==
    IF i > Len(entities) THEN <<>>
    ELSE IF i \in skip THEN Remaining(entities, skip, i + 1)
         ELSE <<entities[i]>> \o Remaining(entities, skip, i + 1)

MergeIntoSmaller(entities) ==
    LET r == MergeLoop(entities, {}, 1)
    IN Remaining(r.entities, r.skip, 1)

getMaxCount(entries) == IF Len(entries) = 0 THEN 0 ELSE entries[1].Value

\* The key a raw token's count goes to in the suffix-stripped histogram.
TruncatedKey(tk, min) ==
    LET base == truncateLeetSuffix(tk)
    IN IF len(base) >= min THEN base ELSE tk

\* truncatedCounts with = in place of +=: a key that several tokens go to keeps
\* the count of one of them.
truncatedCountsOverwrites(tokenCount, min) ==
    [b \in {TruncatedKey(tk, min) : tk \in DOMAIN tokenCount} |->
        tokenCount[CHOOSE tk \in DOMAIN tokenCount : TruncatedKey(tk, min) = b]]

truncatedCounts(tokenCount, min) ==
    [b \in {TruncatedKey(tk, min) : tk \in DOMAIN tokenCount} |->
        SumMap(Restrict(tokenCount, {tk \in DOMAIN tokenCount : TruncatedKey(tk, min) = b}))]

\* The entries AnalyzePasswords keeps, given the two rankings.
chosenEntries(sortedEntries, truncatedEntries) ==
    IF getMaxCount(truncatedEntries) > getMaxCount(sortedEntries)
    THEN truncatedEntries ELSE sortedEntries

\* The map rebuilt from the chosen entries (in order, a later entry overwrites).
EntriesToMap(entries) ==
    [k \in {entries[i].Key : i \in 1..Len(entries)} |->
        entries[CHOOSE i \in 1..Len(entries) :
                  entries[i].Key = k /\ \A j \in (i + 1)..Len(entries) : entries[j].Key # k].Value]

(***************************************************************************)
(* AnalyzePasswords.                                                       *)
(***************************************************************************)
\* What a file variable holds when the path is empty or names no file (a value
\* apart from every sequence of lines).
NoFile == << <<"NoFile">> >>

\* What a file variable holds when the path is not empty and os.Open fails on it.
NoSuchFile == << <<"NoSuchFile">> >>

Bool2Int(b) == IF b THEN 1 ELSE 0

\* countCategories without the case of the special characters.
countCategoriesNoSpecial(password) ==
    LET classes == {classifyChar(password[k]) : k \in 1..Len(password)}
    IN [length |-> len(password),
        category |-> Bool2Int("l" \in classes) + Bool2Int("u" \in classes)
                       + Bool2Int("d" \in classes)]

\* (length, category) of one password: its length in bytes and the number of
\* character classes it uses.
countCategories(password) ==
    LET classes == {classifyChar(password[k]) : k \in 1..Len(password)}
        hasLower == "l" \in classes
        hasUpper == "u" \in classes
        hasDigit == "d" \in classes
        hasSpecial == \E c \in classes : c # "l" /\ c # "d" /\ c # "u"
    IN [length |-> len(password),
        category |-> Bool2Int(hasLower) + Bool2Int(hasUpper)
                       + Bool2Int(hasDigit) + Bool2Int(hasSpecial)]

\* The pattern of one password: classifyChar of each rune, in order.
PatternOf(line) == [k \in 1..Len(line) |-> classifyChar(line[k])]

ZeroHashStats ==
    [TotalNTLMHashes |-> 0, UniqueNTLMHashes |-> 0, ReusedNTLMHashes |-> 0,
     IsLM |-> 0, IsHash |-> FALSE, EmptyNTLMHashes |-> 0, UserEqualHash |-> <<>>]

\* The utils.Stats AnalyzePasswords starts from.
NewStats ==
    [CrackedCount |-> 0, Lengths |-> EmptyMap, Complexity |-> EmptyMap,
     Patterns |-> EmptyMap, Mostreuse |-> EmptyMap, CrackedReuseCount |-> 0,
     TokenCount |-> EmptyMap, Hashes |-> ZeroHashStats,
     GlobalPercent |-> 0, Risk |-> ""]

\* CountTokens that counts a token once for a line, however often it occurs there.
CountTokensOncePerLine(tokenCount, matchingStrings, min) ==
    LET found == {Unleet(ToLower(matchingStrings[i])) : i \in 1..Len(matchingStrings)}
        kept == {t \in found : len(t) >= min}
    IN [k \in DOMAIN tokenCount \cup kept |->
           Get(tokenCount, k) + (IF k \in kept THEN 1 ELSE 0)]

RECURSIVE CountTokens(_, _, _)
\* The loop over matchingStrings.
CountTokens(tokenCount, matchingStrings, min) ==
    IF matchingStrings = <<>> THEN tokenCount
    ELSE LET unLeeted == Unleet(ToLower(Head(matchingStrings)))
         IN CountTokens(IF len(unLeeted) >= min THEN Add(tokenCount, unLeeted, 1)
                        ELSE tokenCount,
                        Tail(matchingStrings), min)

\* ScanLine with the blank-line test placed after the counters.
ScanLineCountsBlank(stats, line, min) ==
    LET cc == countCategories(line)
        counted == [stats EXCEPT !.CrackedCount = @ + 1]
    IN IF line = <<>> THEN counted
       ELSE [counted EXCEPT
               !.Lengths = Add(@, cc.length, 1),
               !.Complexity = Add(@, cc.category, 1),
               !.Mostreuse = Add(@, line, 1),
               !.Patterns = Add(@, PatternOf(line), 1),
               !.TokenCount = CountTokens(@, FindAllString(line), min)]

\* One iteration of the scanner loop.
ScanLine(stats, line, min) ==
    IF line = <<>> THEN stats
    ELSE LET cc == countCategories(line)
         IN [stats EXCEPT
               !.Lengths = Add(@, cc.length, 1),
               !.Complexity = Add(@, cc.category, 1),
               !.Mostreuse = Add(@, line, 1),
               !.CrackedCount = @ + 1,
               !.Patterns = Add(@, PatternOf(line), 1),
               !.TokenCount = CountTokens(@, FindAllString(line), min)]

\* bufio.MaxScanTokenSize, the size of the largest buffer a bufio.Scanner made by
\* bufio.NewScanner reads a line into.
MaxScanTokenSize == 65536

\* bufio.ErrTooLong, the error of a scanner stopped by a line of MaxScanTokenSize
\* bytes or more.
ErrTooLong == "bufio.Scanner: token too long"

\* The lines scanner.Scan() does not get past: a line of MaxScanTokenSize bytes
\* or more fills the buffer before its end is found (a line has at least one
\* byte and at most two for each of its characters).
IsTooLong(line) ==
    \/ Len(line) >= MaxScanTokenSize
    \/ 2 * Len(line) >= MaxScanTokenSize /\ len(line) >= MaxScanTokenSize

\* scanner.Err() after the loop.
ScannerErr(lines) ==
    IF \E k \in 1..Len(lines) : IsTooLong(lines[k]) THEN ErrTooLong ELSE ""

RECURSIVE ScanLines(_, _, _)
\* The loop for scanner.Scan(), which ends at the end of the file or at the
\* first line that is too long.
ScanLines(stats, lines, min) ==
    IF lines = <<>> \/ IsTooLong(Head(lines)) THEN stats
    ELSE ScanLines(ScanLine(stats, Head(lines), min), Tail(lines), min)

\* lineCount after the scan: the non-empty lines the scanner has given, which
\* are those before the first line that is too long.
lineCount(lines) ==
    Cardinality({k \in 1..Len(lines) :
                    lines[k] # <<>> /\ \A m \in 1..k : ~IsTooLong(lines[m])})

MinPasswords == 2

ErrOpen == "open: no such file"
ErrTooFew == "Password file must contain at least 2 passwords"

\* ReuseCount with the test n > 0: the passwords seen once are counted too.
ReuseCountAll(mostreuse) == SumMap(mostreuse)

\* total reused passwords count
ReuseCount(mostreuse) ==
    SumMap(Restrict(mostreuse, {k \in DOMAIN mostreuse : mostreuse[k] > 1}))

\* What AnalyzePasswords returns when the two rankings come out as sortedEntries
\* and truncatedSorted.
AnalyzeWith(lines, min, sortedEntries, truncatedSorted) ==
    LET scanned == ScanLines(NewStats, lines, min)
        chosen == chosenEntries(MergeIntoSmaller(sortedEntries),
                                MergeIntoSmaller(truncatedSorted))
        merged == [scanned EXCEPT !.TokenCount = EntriesToMap(chosen)]
    IN IF lineCount(lines) < MinPasswords
       THEN [data |-> merged, err |-> ErrTooFew]
       ELSE [data |-> [merged EXCEPT !.CrackedReuseCount = ReuseCount(merged.Mostreuse)],
             err |-> ScannerErr(lines)]

\* Every (data, err) AnalyzePasswords can return for a file and a minimum length.
AnalyzePasswords(file, min) ==
    IF file = NoFile THEN {[data |-> NewStats, err |-> ErrOpen]}
    ELSE LET raw == ScanLines(NewStats, file, min).TokenCount
         IN {AnalyzeWith(file, min, a, b) :
               a \in SortMapByValueDesc(raw),
               b \in SortMapByValueDesc(truncatedCounts(raw, min))}

(***************************************************************************)
(* AnalyzeHashes and UsernameAsPass.  A line of the hash file is the       *)
(* sequence of its colon-delimited fields after TrimSpace (a blank line is *)
(* the single empty field); a field is a string.                           *)
(***************************************************************************)
\* The constants of AnalyzeHashes, as character sequences.
emptyLM ==
    <<"a", "a", "d", "3", "b", "4", "3", "5", "b", "5", "1", "4", "0", "4", "e", "e",
      "a", "a", "d", "3", "b", "4", "3", "5", "b", "5", "1", "4", "0", "4", "e", "e">>
emptyNTLM ==
    <<"3", "1", "d", "6", "c", "f", "e", "0", "d", "1", "6", "a", "e", "9", "3", "1",
      "b", "7", "3", "c", "5", "9", "d", "7", "e", "0", "c", "0", "8", "9", "c", "0">>

MinFields == 4

Whitespace == {" ", "\t"}

\* strings.TrimSpace: s without its leading and its trailing white space.
TrimSpace(s) ==
    LET leading == Cardinality({k \in 1..Len(s) : \A m \in 1..k : s[m] \in Whitespace})
        trailing == Cardinality({k \in 1..Len(s) : \A m \in k..Len(s) : s[m] \in Whitespace})
    IN SubSeq(s, leading + 1, Len(s) - trailing)

\* strings.Split(s, sep) for a separator of one character: the texts between
\* the successive occurrences of sep, one more than there are occurrences.
Split(s, sep) ==
    LET at == {k \in 1..Len(s) : s[k] = sep}
        nth(n) == IF n = 0 THEN 0
                  ELSE IF n > Cardinality(at) THEN Len(s) + 1
                  ELSE CHOOSE k \in at : Cardinality({m \in at : m < k}) = n - 1
    IN [n \in 1..(Cardinality(at) + 1) |-> SubSeq(s, nth(n - 1) + 1, nth(n) - 1)]

\* strings.LastIndex(s, c) + 1 for a one-character c: 0 when c does not occur.
LastIndex(s, c) ==
    IF \E k \in 1..Len(s) : s[k] = c
    THEN CHOOSE k \in 1..Len(s) : s[k] = c /\ \A m \in (k + 1)..Len(s) : s[m] # c
    ELSE 0

\* strings.EqualFold, for the letters of the model.
EqualFold(a, b) == ToLower(a) = ToLower(b)

\* parts of a line, after TrimSpace and Split on ":".
Parts(line) == Split(TrimSpace(line), ":")

\* IsValidRecord asking for more than four fields.
IsValidRecordFiveFields(parts) == parts # << <<>> >> /\ Len(parts) > MinFields

\* The lines AnalyzeHashes and UsernameAsPass do not skip, by their parts: the
\* trimmed line is not empty (an empty line has the one part "") and has at
\* least four parts.
IsValidRecord(parts) == parts # << <<>> >> /\ Len(parts) >= MinFields

\* isEmptyNTLM compared with == in place of strings.EqualFold.
isEmptyNTLMCaseSensitive(ntlm) == ntlm = <<>> \/ ntlm = emptyNTLM

isEmptyNTLM(ntlm) == ntlm = <<>> \/ EqualFold(ntlm, emptyNTLM)

\* The LM test compared with != in place of strings.EqualFold.
isRealLMCaseSensitive(lm) == lm # <<>> /\ lm # emptyLM

\* lm != "" && !strings.EqualFold(lm, emptyLM)
isRealLM(lm) == lm # <<>> /\ ~EqualFold(lm, emptyLM)

RECURSIVE HashScan(_, _, _)
\* The scanner loop of AnalyzeHashes over the remaining lines.
HashScan(stats, ntlmSeen, lines) ==
    IF lines = <<>> \/ IsTooLong(Head(lines))
    THEN [stats |-> stats, ntlmSeen |-> ntlmSeen]
    ELSE LET parts == Parts(Head(lines))
         IN IF ~IsValidRecord(parts) THEN HashScan(stats, ntlmSeen, Tail(lines))
            ELSE LET lm == parts[3]
                     ntlm == parts[4]
                 IN HashScan([stats EXCEPT
                                !.EmptyNTLMHashes = @ + Bool2Int(isEmptyNTLM(ntlm)),
                                !.TotalNTLMHashes = @ + 1,
                                !.IsLM = @ + Bool2Int(isRealLM(lm))],
                             Add(ntlmSeen, ntlm, 1), Tail(lines))

\* UniqueCount counting every key of ntlmSeen.
UniqueCountDistinct(ntlmSeen) == Cardinality(DOMAIN ntlmSeen)

\* get uniq ntlm hashes
UniqueCount(ntlmSeen) == Cardinality({h \in DOMAIN ntlmSeen : ntlmSeen[h] = 1})

ErrScanHashes == "[!][utils][ComputeHashStats] scan error: bufio.Scanner: token too long"

\* AnalyzeHashes with ReusedNTLMHashes computed before the unique hashes are counted.
AnalyzeHashesReusedEarly(file) ==
    LET r == HashScan(ZeroHashStats, EmptyMap, file)
    IN IF file \in {NoFile, NoSuchFile}
       THEN [stats |-> ZeroHashStats, err |-> "[utils][ComputeHashStats] cannot open"]
       ELSE IF ScannerErr(file) # ""
       THEN [stats |-> ZeroHashStats, err |-> ErrScanHashes]
       ELSE [stats |-> [r.stats EXCEPT !.UniqueNTLMHashes = UniqueCount(r.ntlmSeen),
                                       !.ReusedNTLMHashes = r.stats.TotalNTLMHashes],
             err |-> ""]

\* (stats, err) of AnalyzeHashes: the zero HashStats and an error when the file
\* cannot be opened or the scanner stops at a line that is too long.
AnalyzeHashes(file) ==
    LET r == HashScan(ZeroHashStats, EmptyMap, file)
        unique == UniqueCount(r.ntlmSeen)
    IN IF file \in {NoFile, NoSuchFile}
       THEN [stats |-> ZeroHashStats, err |-> "[utils][ComputeHashStats] cannot open"]
       ELSE IF ScannerErr(file) # ""
       THEN [stats |-> ZeroHashStats, err |-> ErrScanHashes]
       ELSE [stats |-> [r.stats EXCEPT !.UniqueNTLMHashes = unique,
                                       !.ReusedNTLMHashes = r.stats.TotalNTLMHashes - unique],
             err |-> ""]

\* The text after the last backslash of the account field.
BareAccount(account) == SubSeq(account, LastIndex(account, "\\") + 1, Len(account))

\* The account names of the model.
alice == <<"a", "l", "i", "c", "e">>
bob == <<"b", "o", "b">>
admin == <<"a", "d", "m", "i", "n">>
svc == <<"s", "v", "c">>
eve == <<"e", "v", "e">>

\* NtlmHash: the MD4 digest, in lower-case hexadecimal, of the UTF-16LE encoding
\* of the password; the digests of the account names of the model.
NtlmHash(password) ==
    CASE password = alice ->
           <<"4", "0", "3", "9", "7", "3", "0", "e", "1", "b", "f", "6", "e", "1", "0", "d",
             "d", "0", "1", "e", "a", "a", "c", "9", "8", "3", "d", "b", "4", "d", "7", "c">>
      [] password = bob ->
           <<"b", "7", "c", "8", "9", "9", "1", "5", "4", "1", "9", "7", "e", "8", "a", "2",
             "a", "3", "3", "1", "2", "1", "d", "7", "6", "a", "2", "4", "0", "a", "b", "5">>
      [] password = admin ->
           <<"2", "0", "9", "c", "6", "1", "7", "4", "d", "a", "4", "9", "0", "c", "a", "e",
             "b", "4", "2", "2", "f", "3", "f", "a", "5", "a", "7", "a", "e", "6", "3", "4">>
      [] password = svc ->
           <<"7", "3", "5", "c", "9", "0", "b", "e", "3", "f", "0", "a", "c", "2", "0", "0",
             "5", "d", "5", "0", "f", "e", "1", "4", "6", "a", "a", "a", "d", "2", "0", "1">>
      [] password = eve ->
           <<"1", "a", "b", "b", "6", "7", "a", "2", "8", "9", "0", "5", "5", "4", "c", "8",
             "5", "0", "6", "e", "0", "a", "8", "2", "8", "6", "9", "3", "9", "2", "b", "1">>
      [] password = <<>> -> emptyNTLM

RECURSIVE UsernameAsPassOnce(_, _)
\* UsernameAsPass keeping the first match of an account only.
UsernameAsPassOnce(lines, seen) ==
    IF lines = <<>> \/ IsTooLong(Head(lines)) THEN <<>>
    ELSE LET parts == Parts(Head(lines))
             account == BareAccount(parts[1])
             ntlmHash == ToLower(parts[4])
         IN IF IsValidRecord(parts) /\ ntlmHash # <<>>
               /\ EqualFold(NtlmHash(account), ntlmHash) /\ account \notin seen
            THEN <<account>> \o UsernameAsPassOnce(Tail(lines), seen \cup {account})
            ELSE UsernameAsPassOnce(Tail(lines), seen)

ErrScanNames == "scan error: bufio.Scanner: token too long"

UsernameAsPassNoDuplicates(file) ==
    IF file \in {NoFile, NoSuchFile} THEN [matches |-> <<>>, err |-> "cannot open"]
    ELSE IF ScannerErr(file) # "" THEN [matches |-> <<>>, err |-> ErrScanNames]
    ELSE [matches |-> UsernameAsPassOnce(file, {}), err |-> ""]

RECURSIVE matches(_)
\* The scanner loop of UsernameAsPass over the remaining lines: the matches it
\* appends.
matches(lines) ==
    IF lines = <<>> \/ IsTooLong(Head(lines)) THEN <<>>
    ELSE LET parts == Parts(Head(lines))
             account == BareAccount(parts[1])
             ntlmHash == ToLower(parts[4])
         IN IF IsValidRecord(parts) /\ ntlmHash # <<>>
               /\ EqualFold(NtlmHash(account), ntlmHash)
            THEN <<account>> \o matches(Tail(lines))
            ELSE matches(Tail(lines))

\* (matches, err) of UsernameAsPass: nil (no name) and an error when the file
\* cannot be opened or the scanner stops at a line that is too long.
UsernameAsPass(file) ==
    IF file \in {NoFile, NoSuchFile} THEN [matches |-> <<>>, err |-> "cannot open"]
    ELSE IF ScannerErr(file) # "" THEN [matches |-> <<>>, err |-> ErrScanNames]
    ELSE [matches |-> matches(file), err |-> ""]

(***************************************************************************)
(* Percent, SumLengthRange and EvaluateRisk.                               *)
(***************************************************************************)
\* math.Round(a / b) for a >= 0 and b > 0: to the nearest integer, halves up.
MathRound(a, b) == (2 * a + b) \div (2 * b)

\* Percent with the quotient cut off after the first decimal, not rounded.
PercentTruncates(part, total) ==
    IF total = 0 THEN 0 ELSE 100 * ((1000 * part) \div total)

\* The binary exponent of num / den: the f with 2^f <= num / den < 2^(f + 1).
RECURSIVE Exponent(_, _)
Exponent(num, den) ==
    IF num >= 2 * den THEN 1 + Exponent(num, 2 * den)
    ELSE IF num < den THEN Exponent(2 * num, den) - 1
    ELSE 0

RECURSIVE Pow2(_)
Pow2(k) == IF k = 0 THEN 1 ELSE 2 * Pow2(k - 1)

RECURSIVE Pow2Mod(_)
Pow2Mod(k) == IF k = 0 THEN 1 ELSE (2 * Pow2Mod(k - 1)) % 2000

\* float64(part)/float64(total)*1000 for a quotient n / 2000 with n odd, whose
\* exact product is the half n / 2: whether the float64 product lies below the
\* half.  The division rounds n / 2000 to 53 bits; r is what the rounding cuts
\* off, in units of 1/2000 of the last bit.  The product falls below n / 2 when
\* the quotient was rounded down (r < 1000) by more than half a last bit of
\* the product (r > 512, with a 53-bit fraction of the quotient below 1.024,
\* where the product has the last bit 512 times that of the quotient).
HalfFallsBelow(n) ==
    LET f == Exponent(n, 2000)
        r == ((n % 2000) * Pow2Mod(52 - f)) % 2000
        low == IF f >= 0 THEN n < 2048 * Pow2(f) ELSE n * Pow2(0 - f) < 2048
    IN low /\ r > 512 /\ r < 1000

\* utils.Percent, in thousandths (a multiple of 100: one decimal):
\* math.Round((float64(part)/float64(total))*1000) / 10.  The float64 product
\* is within a few 2^-53 of 1000 * part / total, so math.Round gives the
\* nearest integer, and at an exact half the integer above unless the float64
\* product lies below the half (201/400 gives 502.49999999999994 and 50.2).
Percent(part, total) ==
    IF total = 0 THEN 0
    ELSE LET n == (2000 * part) \div total
             half == (2000 * part) % total = 0 /\ n % 2 = 1
         IN IF half /\ HalfFallsBelow(n)
            THEN 100 * (MathRound(1000 * part, total) - 1)
            ELSE 100 * MathRound(1000 * part, total)

SumLengthRange(m, min, max) ==
    SumMap(Restrict(m, {k \in DOMAIN m : k >= min /\ k <= max}))

RECURSIVE SumSeq(_)
SumSeq(ps) == IF ps = <<>> THEN 0 ELSE Head(ps) + SumSeq(Tail(ps))

\* riskLabels after the attempt to open and decode lang/<lang>.json.  Open
\* fails on a missing file and Decode then fails on the nil file; Decode fails
\* on a file that is not well-formed JSON before it stores anything: in both
\* cases riskLabels stays the zero value.  On a well-formed file with a value
\* of the wrong type Decode returns an UnmarshalTypeError after it has stored
\* every other field: the four labels when the wrong value is outside the Risk
\* section, and all of them but Risk.low when Risk.low is the wrong value.
LoadRiskLabels(loc) ==
    CASE loc \in {"ok", "mistyped"} ->
           [Low |-> "Low", Medium |-> "Medium", High |-> "High", Critical |-> "Critical"]
      [] loc = "mistyped low" ->
           [Low |-> "", Medium |-> "Medium", High |-> "High", Critical |-> "Critical"]
      [] OTHER -> [Low |-> "", Medium |-> "", High |-> "", Critical |-> ""]

\* The scores math.Round(score*100)/100 can give for the mean of ps, in
\* thousandths: the nearest hundredth, and either neighbour when the mean lies
\* exactly halfway (the binary float may fall on either side of the half).
Scores(ps) ==
    LET n == Len(ps)
        up == MathRound(SumSeq(ps), 10 * n)
        tie == (2 * SumSeq(ps) + 10 * n) % (20 * n) = 0
    IN IF tie THEN {10 * up, 10 * (up - 1)} ELSE {10 * up}

\* RiskLabel with inclusive upper limits.
RiskLabelInclusive(riskLabels, score) ==
    CASE score <= 25000 -> riskLabels.Low
      [] score > 25000 /\ score <= 50000 -> riskLabels.Medium
      [] score > 50000 /\ score <= 75000 -> riskLabels.High
      [] OTHER -> riskLabels.Critical

RiskLabel(riskLabels, score) ==
    CASE score < 25000 -> riskLabels.Low
      [] score >= 25000 /\ score < 50000 -> riskLabels.Medium
      [] score >= 50000 /\ score < 75000 -> riskLabels.High
      [] OTHER -> riskLabels.Critical

\* EvaluateRisk giving up when the language file cannot be read.
EvaluateRiskGivesUp(loc, ps) ==
    IF Len(ps) = 0 \/ loc # "ok" THEN {[label |-> "N/A", score |-> 0]}
    ELSE {[label |-> RiskLabel(LoadRiskLabels(loc), score), score |-> score] :
            score \in Scores(ps)}

\* Every (label, score) EvaluateRisk can return.
EvaluateRisk(loc, ps) ==
    IF Len(ps) = 0 THEN {[label |-> "N/A", score |-> 0]}
    ELSE {[label |-> RiskLabel(LoadRiskLabels(loc), score), score |-> score] :
            score \in Scores(ps)}

(***************************************************************************)
(* Inputs.                                                                 *)
(***************************************************************************)
SeqsUpTo(S, n) == UNION {[1..k -> S] : k \in 0..n}

\* The password lines files are made of: a blank line, tokens that contain one
\* another, an upper-case leet variant, and a line with a two-byte character.
PasswordLines ==
    { <<>>,
      <<"a", "b", "c", "d">>,
      <<"a", "b", "c", "d", "e">>,
      <<"b", "c", "d", "e">>,
      <<"A", "B", "C", "D", "1">>,
      <<"e'", "1", "#">> }

PasswordFiles == SeqsUpTo(PasswordLines, MaxLines)

\* A line of n bytes, each of them the character #.
LineOfLength(n) == [k \in 1..n |-> "#"]

\* Password files with a line at the limit of the scanner: alone, after one
\* password with a second one behind it, after two equal passwords with a third
\* behind it, and after two different passwords.
LongLineFiles ==
    { <<LineOfLength(MaxScanTokenSize)>>,
      <<<<"a", "b", "c", "d">>, LineOfLength(MaxScanTokenSize), <<"a", "b", "c", "d">>>>,
      <<<<"a", "b", "c", "d">>, <<"a", "b", "c", "d">>,
        LineOfLength(MaxScanTokenSize), <<"a", "b", "c", "d">>>>,
      <<<<"a", "b", "c", "d">>, <<"a", "b", "c", "d", "e">>,
        LineOfLength(MaxScanTokenSize)>> }

MinLengths == 4..MaxMin

\* The hash lines files are made of: a blank line, a line with too few fields,
\* an account whose password is its name, and an empty-password account.
\* strings.Join(fields, ":"): a record written out as a line of the file.
RECURSIVE Join(_)
Join(fields) ==
    IF Len(fields) = 0 THEN <<>>
    ELSE IF Len(fields) = 1 THEN fields[1]
         ELSE fields[1] \o <<":">> \o Join(Tail(fields))

rid == <<"5", "0", "0">>
domain == <<"C", "O", "R", "P", "\\">>

\* The lines of the hash files of main: a blank line, a record of three fields,
\* an account with a domain whose password is its name, and a record with the
\* disabled LM hash and the empty NTLM hash in upper case.
HashLines ==
    { <<>>,
      Join(<<eve, rid, emptyLM>>),
      Join(<<domain \o bob, rid, emptyLM, NtlmHash(bob), <<>>, <<>>, <<>>>>),
      Join(<<alice, rid, ToUpper(emptyLM), ToUpper(emptyNTLM), <<>>, <<>>, <<>>>>) }

HashFiles == SeqsUpTo(HashLines, MaxRecords)

\* Hash files with a line of 65536 bytes: after the record of an account whose
\* password is its name, and before two such records.
LongLineHashFiles ==
    LET record == Join(<<domain \o bob, rid, emptyLM, NtlmHash(bob), <<>>, <<>>, <<>>>>)
    IN { <<record, LineOfLength(MaxScanTokenSize)>>,
         <<LineOfLength(MaxScanTokenSize), record, record>> }

\* The language file lang/<lang>.json: as it should be, missing, not well-formed
\* JSON, and well-formed with a value of the wrong type, either outside the Risk
\* section or as Risk.low.
Locales == {"ok", "missing", "malformed", "mistyped", "mistyped low"}

NoRisk == [label |-> "none", score |-> -1]

(***************************************************************************)
(* main, from the call of AnalyzePasswords to the risk evaluation.         *)
(***************************************************************************)
ErrFewerHashes == "Hash file contains fewer lines than password file"

Init ==
    /\ pc = "start"
    /\ passwordFile = NoFile
    /\ minCharOccurences = 0
    /\ hashFile = NoFile
    /\ locale = "ok"
    /\ data = NewStats
    /\ err = ""
    /\ rerun = <<>>
    /\ token = <<>>
    /\ unleeted = <<>>
    /\ percentages = <<>>
    /\ risk = NoRisk
    /\ NoPercent
    /\ NoMerge
    /\ NoScan
    /\ NoOutput

\* data, err := analysis.AnalyzePasswords(*passwordFile, *minCharOccurences),
\* and log.Fatalf on an error.
CallAnalyzePasswords ==
    /\ pc = "start"
    /\ \E file \in PasswordFiles \cup LongLineFiles \cup {NoFile}, min \in MinLengths :
         /\ passwordFile' = file
         /\ minCharOccurences' = min
         /\ \E r \in AnalyzePasswords(file, min) :
              /\ data' = r.data
              /\ err' = r.err
              /\ pc' = IF r.err # "" THEN "fatal" ELSE "analyzed"
    /\ UNCHANGED <<hashFile, locale, rerun, token, unleeted, percentages, risk>>
    /\ UNCHANGED <<percentVars, mergeVars, scanVars, outVars>>

\* What AnalyzeHashes and UsernameAsPass return for each hash file -H can name:
\* a file of records, a file with a line too long for the scanner, or a path
\* that cannot be opened.  UsernameAsPass opens and reads the same file again.
HashFileResults ==
    {[file |-> file, hashes |-> AnalyzeHashes(file), names |-> UsernameAsPass(file)] :
        file \in HashFiles \cup LongLineHashFiles \cup {NoSuchFile}}

\* CallAnalyzeHashes without the comparison of TotalNTLMHashes with CrackedCount.
CallAnalyzeHashesUnchecked ==
    /\ pc = "analyzed"
    /\ \E r \in HashFileResults :
         /\ hashFile' = r.file
         /\ IF r.hashes.err # ""
            THEN /\ data' = [data EXCEPT !.Hashes = r.hashes.stats]
                 /\ pc' = "fatal"
                 /\ err' = r.hashes.err
            ELSE /\ data' = [data EXCEPT !.Hashes = [r.hashes.stats EXCEPT
                                                      !.IsHash = TRUE,
                                                      !.UserEqualHash = r.names.matches]]
                 /\ pc' = "hashed"
                 /\ err' = err
    /\ UNCHANGED <<passwordFile, minCharOccurences, locale, rerun, token,
                   unleeted, percentages, risk>>
    /\ UNCHANGED <<percentVars, mergeVars, scanVars, outVars>>

\* The branch of main taken when -H is given: log.Fatalf on an error of
\* AnalyzeHashes, log.Printf only on an error of UsernameAsPass, and log.Fatalf
\* when the hash file has fewer records than there are passwords.
CallAnalyzeHashes ==
    /\ pc = "analyzed"
    /\ \E r \in HashFileResults :
         /\ hashFile' = r.file
         /\ IF r.hashes.err # ""
            THEN /\ data' = [data EXCEPT !.Hashes = r.hashes.stats]
                 /\ pc' = "fatal"
                 /\ err' = r.hashes.err
            ELSE /\ data' = [data EXCEPT !.Hashes = [r.hashes.stats EXCEPT
                                                      !.IsHash = TRUE,
                                                      !.UserEqualHash = r.names.matches]]
                 /\ IF r.hashes.stats.TotalNTLMHashes < data.CrackedCount
                    THEN pc' = "fatal" /\ err' = ErrFewerHashes
                    ELSE pc' = "hashed" /\ err' = err
    /\ UNCHANGED <<passwordFile, minCharOccurences, locale, rerun, token,
                   unleeted, percentages, risk>>
    /\ UNCHANGED <<percentVars, mergeVars, scanVars, outVars>>

\* The branch of main taken when -H is not given.
NoHashFile ==
    /\ pc = "analyzed"
    /\ hashFile' = NoFile
    /\ data' = [data EXCEPT
                  !.Hashes.TotalNTLMHashes = data.CrackedCount,
                  !.Hashes.ReusedNTLMHashes = data.CrackedReuseCount,
                  !.Hashes.UniqueNTLMHashes = data.CrackedCount - data.CrackedReuseCount,
                  !.Hashes.IsHash = FALSE]
    /\ pc' = "hashed"
    /\ UNCHANGED <<passwordFile, minCharOccurences, locale, err, rerun, token,
                   unleeted, percentages, risk>>
    /\ UNCHANGED <<percentVars, mergeVars, scanVars, outVars>>

\* The percentages main passes to EvaluateRisk.
RiskInputs(stats) ==
    LET reuse == Percent(stats.Hashes.ReusedNTLMHashes, stats.Hashes.TotalNTLMHashes)
        weak == Percent(Get(stats.Complexity, 1) + Get(stats.Complexity, 2)
                          + Get(stats.Complexity, 3), stats.CrackedCount)
        short == Percent(SumLengthRange(stats.Lengths, 0, 10), stats.CrackedCount)
        cracked == Percent(stats.CrackedCount, stats.Hashes.TotalNTLMHashes)
    IN IF stats.Hashes.IsHash THEN <<reuse, weak, short, cracked>>
       ELSE <<reuse, weak, short>>

CallEvaluateRisk ==
    /\ pc = "hashed"
    /\ \E loc \in Locales :
         /\ locale' = loc
         /\ percentages' = RiskInputs(data)
         /\ risk' \in EvaluateRisk(loc, percentages')
         /\ data' = [data EXCEPT !.Risk = risk'.label, !.GlobalPercent = risk'.score]
    /\ pc' = "risk"
    /\ UNCHANGED <<passwordFile, minCharOccurences, hashFile, err, rerun, token,
                   unleeted>>
    /\ UNCHANGED <<percentVars, mergeVars, scanVars, outVars>>

Next ==
    \/ CallAnalyzePasswords
    \/ CallAnalyzeHashes
    \/ NoHashFile
    \/ CallEvaluateRisk

Spec == Init /\ [][Next]_vars

(***************************************************************************)
(* AnalyzePasswords run more than once on the same file.                   *)
(***************************************************************************)
MaxRuns == 2

InitRerun ==
    /\ pc = "rerun"
    /\ passwordFile = NoFile
    /\ minCharOccurences = 0
    /\ hashFile = NoFile
    /\ locale = "ok"
    /\ data = NewStats
    /\ err = ""
    /\ rerun = <<>>
    /\ token = <<>>
    /\ unleeted = <<>>
    /\ percentages = <<>>
    /\ risk = NoRisk
    /\ NoPercent
    /\ NoMerge
    /\ NoScan
    /\ NoOutput

\* The first run, on a file and a minimum length of the caller's choice.
FirstRun ==
    /\ pc = "rerun"
    /\ rerun = <<>>
    /\ \E file \in PasswordFiles, min \in MinLengths :
         /\ passwordFile' = file
         /\ minCharOccurences' = min
         /\ \E r \in AnalyzePasswords(file, min) :
              /\ data' = r.data
              /\ err' = r.err
              /\ rerun' = <<r.data.TokenCount>>
    /\ UNCHANGED <<pc, hashFile, locale, token, unleeted, percentages, risk>>
    /\ UNCHANGED <<percentVars, mergeVars, scanVars, outVars>>

\* A further run with the same arguments.
NextRun ==
    /\ pc = "rerun"
    /\ rerun # <<>>
    /\ Len(rerun) < MaxRuns
    /\ \E r \in AnalyzePasswords(passwordFile, minCharOccurences) :
         /\ data' = r.data
         /\ err' = r.err
         /\ rerun' = Append(rerun, r.data.TokenCount)
    /\ UNCHANGED <<pc, passwordFile, minCharOccurences, hashFile, locale, token,
                   unleeted, percentages, risk>>
    /\ UNCHANGED <<percentVars, mergeVars, scanVars, outVars>>

NextRerun == FirstRun \/ NextRun

SpecRerun == InitRerun /\ [][NextRerun]_vars

(***************************************************************************)
(* Unleet applied to a token, then to its own result.                      *)
(***************************************************************************)
MaxApplications == 2

\* The characters of the tokens: the keys of leetMap, their replacements, and
\* characters the map leaves alone.
TokenChars ==
    DOMAIN leetMap \cup {leetMap[k] : k \in DOMAIN leetMap} \cup {"b", "d", "A", "2", "#"}

Tokens == SeqsUpTo(TokenChars, MaxTokenLen)

InitUnleet ==
    /\ pc = "unleet"
    /\ passwordFile = NoFile
    /\ minCharOccurences = 0
    /\ hashFile = NoFile
    /\ locale = "ok"
    /\ data = NewStats
    /\ err = ""
    /\ rerun = <<>>
    /\ token = <<>>
    /\ unleeted = <<>>
    /\ percentages = <<>>
    /\ risk = NoRisk
    /\ NoPercent
    /\ NoMerge
    /\ NoScan
    /\ NoOutput

UnleetToken ==
    /\ pc = "unleet"
    /\ unleeted = <<>>
    /\ \E t \in Tokens :
         /\ token' = t
         /\ unleeted' = <<Unleet(t)>>
    /\ UNCHANGED <<pc, passwordFile, minCharOccurences, hashFile, locale, data, err,
                   rerun, percentages, risk>>
    /\ UNCHANGED <<percentVars, mergeVars, scanVars, outVars>>

UnleetAgain ==
    /\ pc = "unleet"
    /\ unleeted # <<>>
    /\ Len(unleeted) < MaxApplications
    /\ unleeted' = Append(unleeted, Unleet(unleeted[Len(unleeted)]))
    /\ UNCHANGED <<pc, passwordFile, minCharOccurences, hashFile, locale, data, err,
                   rerun, token, percentages, risk>>
    /\ UNCHANGED <<percentVars, mergeVars, scanVars, outVars>>

NextUnleet == UnleetToken \/ UnleetAgain

SpecUnleet == InitUnleet /\ [][NextUnleet]_vars

(***************************************************************************)
(* EvaluateRisk on a list of percentages.                                  *)
(***************************************************************************)
\* Percentages (in thousandths) around the three thresholds.
PercentValues == {0, 10000, 24994, 24996, 25000, 50000, 74996, 75000, 100000}

PercentLists == SeqsUpTo(PercentValues, MaxPercentages)

InitRisk ==
    /\ pc = "evaluate"
    /\ passwordFile = NoFile
    /\ minCharOccurences = 0
    /\ hashFile = NoFile
    /\ locale = "ok"
    /\ data = NewStats
    /\ err = ""
    /\ rerun = <<>>
    /\ token = <<>>
    /\ unleeted = <<>>
    /\ percentages = <<>>
    /\ risk = NoRisk
    /\ NoPercent
    /\ NoMerge
    /\ NoScan
    /\ NoOutput

Evaluate ==
    /\ pc = "evaluate"
    /\ \E loc \in Locales, ps \in PercentLists :
         /\ locale' = loc
         /\ percentages' = ps
         /\ risk' \in EvaluateRisk(loc, ps)
    /\ pc' = "evaluated"
    /\ UNCHANGED <<passwordFile, minCharOccurences, hashFile, data, err, rerun,
                   token, unleeted>>
    /\ UNCHANGED <<percentVars, mergeVars, scanVars, outVars>>

NextRisk == Evaluate

SpecRisk == InitRisk /\ [][NextRisk]_vars

(***************************************************************************)
(* AnalyzeHashes and UsernameAsPass on a hash file.                        *)
(***************************************************************************)
MaxHashLines == 3

\* An LM hash that is not the disabled one.
realLM ==
    <<"e", "5", "2", "c", "a", "c", "6", "7", "4", "1", "9", "a", "9", "a", "2", "2",
      "4", "a", "3", "b", "1", "0", "8", "f", "3", "f", "a", "6", "c", "b", "6", "d">>

\* The lines of HashLines, and: a line of white space, an account with an LM
\* hash whose password is its name (the hash in upper case), a record with
\* empty hash fields, and a record of exactly four fields between spaces.
MoreHashLines ==
    HashLines \cup
    { <<" ", "\t">>,
      Join(<<bob, rid, realLM, ToUpper(NtlmHash(bob)), <<>>, <<>>, <<>>>>),
      Join(<<svc, rid, <<>>, <<>>, <<>>, <<>>, <<>>>>),
      <<" ">> \o Join(<<admin, rid, emptyLM, NtlmHash(admin)>>) \o <<" ">> }

MoreHashFiles == SeqsUpTo(MoreHashLines, MaxHashLines)

\* The files of LongLineHashFiles, and each line of MoreHashLines followed by a
\* line of 65536 bytes.
MoreLongLineHashFiles ==
    LongLineHashFiles \cup {<<l, LineOfLength(MaxScanTokenSize)>> : l \in MoreHashLines}

InitHash ==
    /\ pc = "hashes"
    /\ passwordFile = NoFile
    /\ minCharOccurences = 0
    /\ hashFile = NoFile
    /\ locale = "ok"
    /\ data = NewStats
    /\ err = ""
    /\ rerun = <<>>
    /\ token = <<>>
    /\ unleeted = <<>>
    /\ percentages = <<>>
    /\ risk = NoRisk
    /\ NoPercent
    /\ NoMerge
    /\ NoScan
    /\ NoOutput

\* AnalyzeHashes on a hash file.
ReadHashFile ==
    /\ pc = "hashes"
    /\ \E file \in MoreHashFiles \cup MoreLongLineHashFiles :
         /\ hashFile' = file
         /\ data' = [data EXCEPT !.Hashes = AnalyzeHashes(file).stats]
         /\ err' = AnalyzeHashes(file).err
    /\ pc' = "hashes counted"
    /\ UNCHANGED <<passwordFile, minCharOccurences, locale, rerun, token,
                   unleeted, percentages, risk>>
    /\ UNCHANGED <<percentVars, mergeVars, scanVars, outVars>>

\* UsernameAsPass on the same file.
ReadUsernames ==
    /\ pc = "hashes counted"
    /\ data' = [data EXCEPT !.Hashes.UserEqualHash = UsernameAsPass(hashFile).matches]
    /\ err' = IF err # "" THEN err ELSE UsernameAsPass(hashFile).err
    /\ pc' = "hashes read"
    /\ UNCHANGED <<passwordFile, minCharOccurences, hashFile, locale, rerun, token,
                   unleeted, percentages, risk>>
    /\ UNCHANGED <<percentVars, mergeVars, scanVars, outVars>>

NextHash == ReadHashFile \/ ReadUsernames

SpecHash == InitHash /\ [][NextHash]_vars

(***************************************************************************)
(* MaskStats (the -anon flag of main) and SanitizeStats on the statistics  *)
(* of a password file.                                                     *)
(***************************************************************************)
MaxMaskLines == 3

MaskKeep == 4

\* utils.MaskPassword: the first two and the last two runes, with a "*" for each
\* rune between them; pw itself when it has 4 runes or fewer.
MaskPassword(pw) ==
    LET n == Len(pw)
    IN IF n <= MaskKeep THEN pw
       ELSE SubSeq(pw, 1, 2) \o [k \in 1..(n - MaskKeep) |-> "*"] \o SubSeq(pw, n - 1, n)

\* utils.MaskStats: maskedReuse[MaskPassword(k)] = v for every entry of
\* Mostreuse, in the order of the map iteration (unspecified); of the entries
\* that share a masked key the one written last stays.
MaskStats(stats) ==
    LET keys == {MaskPassword(k) : k \in DOMAIN stats.Mostreuse}
        last == {f \in [keys -> DOMAIN stats.Mostreuse] : \A mk \in keys : MaskPassword(f[mk]) = mk}
    IN {[stats EXCEPT !.Mostreuse = [mk \in keys |-> stats.Mostreuse[f[mk]]]] : f \in last}

RECURSIVE EscapeString(_)
\* html.EscapeString: the five characters it replaces, one by one.
EscapeString(str) ==
    LET EscapeChar(c) ==
            CASE c = "&" -> <<"&", "a", "m", "p", ";">>
              [] c = "'" -> <<"&", "#", "3", "9", ";">>
              [] c = "<" -> <<"&", "l", "t", ";">>
              [] c = ">" -> <<"&", "g", "t", ";">>
              [] c = "\"" -> <<"&", "#", "3", "4", ";">>
              [] OTHER -> <<c>>
    IN IF str = <<>> THEN <<>> ELSE EscapeChar(Head(str)) \o EscapeString(Tail(str))

\* sanitizeMap of utils.SanitizeStats: dst[html.EscapeString(k)] = v for every
\* entry of src, in the order of the map iteration; of the entries that share
\* an escaped key the one written last stays.
sanitizeMap(src) ==
    LET keys == {EscapeString(k) : k \in DOMAIN src}
        last == {f \in [keys -> DOMAIN src] : \A ek \in keys : EscapeString(f[ek]) = ek}
    IN {[ek \in keys |-> src[f[ek]]] : f \in last}

\* utils.SanitizeStats on a Stats that is not nil: the keys of Mostreuse and of
\* TokenCount are replaced by their escaped form, the values are kept.
SanitizeStats(stats) ==
    {[stats EXCEPT !.Mostreuse = reuse, !.TokenCount = tokens] :
        reuse \in sanitizeMap(stats.Mostreuse), tokens \in sanitizeMap(stats.TokenCount)}

\* Passwords of 5 runes with the same first two and last two characters, one
\* of them with a character of two bytes, a password that is the mask of
\* another, a password of 4 characters, and a password with characters that
\* html.EscapeString replaces.
MaskLines ==
    { <<"a", "<", "b", "&", "c">>,
      <<"a", "b", "c", "d", "e">>,
      <<"a", "b", "x", "d", "e">>,
      <<"a", "b", "*", "d", "e">>,
      <<"e'", "a", "b", "c", "d">>,
      <<"a", "b", "c", "d">> }

MaskFiles == SeqsUpTo(MaskLines, MaxMaskLines)

InitMask ==
    /\ pc = "mask"
    /\ passwordFile = NoFile
    /\ minCharOccurences = 0
    /\ hashFile = NoFile
    /\ locale = "ok"
    /\ data = NewStats
    /\ err = ""
    /\ rerun = <<>>
    /\ token = <<>>
    /\ unleeted = <<>>
    /\ percentages = <<>>
    /\ risk = NoRisk
    /\ NoPercent
    /\ NoMerge
    /\ NoScan
    /\ NoOutput

\* A successful AnalyzePasswords, as main needs it to get as far as MaskStats.
AnalyzeToMask ==
    /\ pc = "mask"
    /\ \E file \in MaskFiles, min \in MinLengths :
         /\ passwordFile' = file
         /\ minCharOccurences' = min
         /\ \E r \in AnalyzePasswords(file, min) :
              /\ r.err = ""
              /\ data' = r.data
    /\ pc' = "unmasked"
    /\ UNCHANGED <<hashFile, locale, err, rerun, token, unleeted, percentages, risk>>
    /\ UNCHANGED <<percentVars, mergeVars, scanVars, outVars>>

\* utils.MaskStats(&data.Stats)
CallMaskStats ==
    /\ pc = "unmasked"
    /\ data' \in MaskStats(data)
    /\ pc' = "masked"
    /\ UNCHANGED <<passwordFile, minCharOccurences, hashFile, locale, err, rerun,
                   token, unleeted, percentages, risk>>
    /\ UNCHANGED <<percentVars, mergeVars, scanVars, outVars>>

\* utils.SanitizeStats(&data.Stats): an exported function that main does not
\* call (the templates escape the keys themselves, part_000:296-297).
CallSanitizeStats ==
    /\ pc = "unmasked"
    /\ data' \in SanitizeStats(data)
    /\ pc' = "sanitized"
    /\ UNCHANGED <<passwordFile, minCharOccurences, hashFile, locale, err, rerun,
                   token, unleeted, percentages, risk>>
    /\ UNCHANGED <<percentVars, mergeVars, scanVars, outVars>>

NextMask == AnalyzeToMask \/ CallMaskStats \/ CallSanitizeStats

SpecMask == InitMask /\ [][NextMask]_vars

(***************************************************************************)
(* MergeIntoSmaller, one iteration of its outer loop at a time.            *)
(***************************************************************************)
MaxValue == 2

\* Tokens of which one contains the next, and one that contains none of them.
MergeKeys ==
    { <<"a", "b", "c", "d">>,
      <<"a", "b", "c", "d", "e">>,
      <<"a", "b", "c", "d", "e", "f">>,
      <<"b", "c", "d", "e">> }

\* The token histograms over these keys.
MergeMaps == UNION {[keys -> 1..MaxValue] : keys \in SUBSET MergeKeys}

InitMerge ==
    /\ pc = "merge"
    /\ passwordFile = NoFile
    /\ minCharOccurences = 0
    /\ hashFile = NoFile
    /\ locale = "ok"
    /\ data = NewStats
    /\ err = ""
    /\ rerun = <<>>
    /\ token = <<>>
    /\ unleeted = <<>>
    /\ percentages = <<>>
    /\ risk = NoRisk
    /\ NoPercent
    /\ NoMerge
    /\ NoScan
    /\ NoOutput

\* utils.MergeIntoSmaller(utils.SortMapByValueDesc(m)), up to the outer loop.
CallMergeIntoSmaller ==
    /\ pc = "merge"
    /\ \E m \in MergeMaps :
         mergeEntities' \in SortMapByValueDesc(m)
    /\ mergeSkip' = {}
    /\ mergeI' = 1
    /\ pc' = "merging"
    /\ UNCHANGED <<passwordFile, minCharOccurences, hashFile, locale, data, err,
                   rerun, token, unleeted, percentages, risk>>
    /\ UNCHANGED <<percentVars, scanVars, outVars>>

\* One iteration of the outer loop, for i = mergeI.
MergeIteration ==
    /\ pc = "merging"
    /\ mergeI <= Len(mergeEntities)
    /\ IF mergeI \in mergeSkip \/ MergeTargets(mergeEntities, mergeSkip, mergeI) = {}
       THEN UNCHANGED <<mergeEntities, mergeSkip>>
       ELSE LET j == Min(MergeTargets(mergeEntities, mergeSkip, mergeI))
            IN /\ mergeEntities' =
                    [mergeEntities EXCEPT ![j].Value = @ + mergeEntities[mergeI].Value]
               /\ mergeSkip' = mergeSkip \cup {mergeI}
    /\ mergeI' = mergeI + 1
    /\ UNCHANGED <<pc, passwordFile, minCharOccurences, hashFile, locale, data, err,
                   rerun, token, unleeted, percentages, risk>>
    /\ UNCHANGED <<percentVars, scanVars, outVars>>

\* The loop that collects the entries that are not skipped.
CollectRemaining ==
    /\ pc = "merging"
    /\ mergeI > Len(mergeEntities)
    /\ mergeEntities' = Remaining(mergeEntities, mergeSkip, 1)
    /\ pc' = "merged"
    /\ UNCHANGED <<passwordFile, minCharOccurences, hashFile, locale, data, err,
                   rerun, token, unleeted, percentages, risk>>
    /\ UNCHANGED <<percentVars, mergeSkip, mergeI, scanVars, outVars>>

NextMerge == CallMergeIntoSmaller \/ MergeIteration \/ CollectRemaining

SpecMerge == InitMerge /\ [][NextMerge]_vars

(***************************************************************************)
(* Percent on a pair of counts.                                            *)
(***************************************************************************)
MaxCount == 16

\* The counts tried, the pair of the documented example, and a pair whose
\* quotient times 1000 is a half that float64 puts below the half (201/400).
Counts == 0..MaxCount \cup {50, 200, 201, 400}

InitPercent ==
    /\ pc = "percent"
    /\ passwordFile = NoFile
    /\ minCharOccurences = 0
    /\ hashFile = NoFile
    /\ locale = "ok"
    /\ data = NewStats
    /\ err = ""
    /\ rerun = <<>>
    /\ token = <<>>
    /\ unleeted = <<>>
    /\ percentages = <<>>
    /\ risk = NoRisk
    /\ NoPercent
    /\ NoMerge
    /\ NoScan
    /\ NoOutput

CallPercent ==
    /\ pc = "percent"
    /\ \E part \in Counts, total \in Counts :
         /\ percentPart' = part
         /\ percentTotal' = total
         /\ percentResult' = Percent(part, total)
    /\ pc' = "percented"
    /\ UNCHANGED <<passwordFile, minCharOccurences, hashFile, locale, data, err,
                   rerun, token, unleeted, percentages, risk>>
    /\ UNCHANGED <<mergeVars, scanVars, outVars>>

NextPercent == CallPercent

SpecPercent == InitPercent /\ [][NextPercent]_vars

(***************************************************************************)
(* Properties.                                                             *)
(***************************************************************************)
\* main holds what AnalyzePasswords returned for a file it could open.
Scanned == pc \in {"analyzed", "hashed", "risk", "fatal"} /\ passwordFile # NoFile

\* The token histogram before consolidation.
RawTokenCount == ScanLines(NewStats, passwordFile, minCharOccurences).TokenCount

LinesBeforeLongLine ==
    {k \in 1..Len(passwordFile) : \A m \in 1..k : ~IsTooLong(passwordFile[m])}

C2_UniquePlusReused ==
    pc \in {"hashed", "risk"} =>
        /\ data.Hashes.UniqueNTLMHashes + data.Hashes.ReusedNTLMHashes
             = data.Hashes.TotalNTLMHashes
        /\ data.Hashes.UniqueNTLMHashes >= 0
        /\ data.Hashes.ReusedNTLMHashes >= 0
        /\ data.Hashes.TotalNTLMHashes >= 0

\* The fallback with a password used twice and one used once.
C2_Witness ==
    /\ pc = "risk"
    /\ ~data.Hashes.IsHash
    /\ data.Hashes.ReusedNTLMHashes = 2
    /\ data.Hashes.UniqueNTLMHashes = 1

\* C3: the counts of the final token histogram sum to the sum of the counts of
\* the token histogram before consolidation, whichever strategy is kept.
C3_ConsolidationKeepsTotal ==
    Scanned => SumMap(data.TokenCount) = SumMap(RawTokenCount)

\* Three raw tokens of which two are left, one of them a truncated key that
\* was no raw token: the truncation strategy was kept.
C3_Witness ==
    /\ pc = "analyzed"
    /\ Cardinality(DOMAIN RawTokenCount) = 3
    /\ Cardinality(DOMAIN data.TokenCount) = 2
    /\ \E k \in DOMAIN data.TokenCount : k \notin DOMAIN RawTokenCount

\* C4: no key of the final token histogram is a strict substring of another of
\* its keys.
C4_NoSubstringKeys ==
    Scanned =>
        \A k1, k2 \in DOMAIN data.TokenCount : k1 # k2 => ~Contains(k1, k2)

\* Raw tokens that contain one another, of which two keys are left.
C4_Witness ==
    /\ pc = "analyzed"
    /\ \E k1, k2 \in DOMAIN RawTokenCount : k1 # k2 /\ Contains(k1, k2)
    /\ Cardinality(DOMAIN data.TokenCount) = 2

\* C5: every password is counted in the length histogram under the length of its
\* pattern: for each length n, Lengths[n] is the number of passwords whose
\* pattern has n symbols.
C5_PatternLengthIsCountedLength ==
    (Scanned /\ err = "") =>
        \A n \in DOMAIN data.Lengths \cup {Len(p) : p \in DOMAIN data.Patterns} :
            Get(data.Lengths, n)
              = SumMap(Restrict(data.Patterns, {p \in DOMAIN data.Patterns : Len(p) = n}))

\* C6: with fewer than 2 non-blank lines AnalyzePasswords returns an error and a
\* statistics value with empty histograms and zero counters.
C6_NoPartialAggregate ==
    (pc = "fatal" /\ err = ErrTooFew) => data = NewStats

\* C7: every run of AnalyzePasswords on the same file with the same minimum
\* length gives the same final token histogram.
C7_SameTokenHistogram ==
    \A i, j \in 1..Len(rerun) : rerun[i] = rerun[j]

\* C8: Unleet applied to its own result changes nothing, and no replacement of
\* leetMap is a key of leetMap.
C8_UnleetIdempotent ==
    /\ Len(unleeted) >= 2 => unleeted[2] = unleeted[1]
    /\ unleeted # <<>> => \A k \in 1..Len(unleeted[1]) : unleeted[1][k] \notin DOMAIN leetMap

\* A token with a leet character, normalised twice.
C8_Witness ==
    /\ Len(unleeted) = 2
    /\ unleeted[1] # token
    /\ Len(token) = 2

\* C9: for a non-empty list the score is the mean rounded to two decimals, and
\* the label is the bucket of that rounded score: below 25 Low, below 50 Medium,
\* below 75 High, else Critical.
C9_ScoreAndBucket ==
    (pc = "evaluated" /\ percentages # <<>>) =>
        LET n == Len(percentages)
            sum == SumSeq(percentages)
        IN /\ risk.score % 10 = 0
           /\ n * risk.score - sum <= 5 * n
           /\ sum - n * risk.score <= 5 * n
           /\ locale = "ok" =>
                /\ risk.label = "Low" <=> risk.score < 25000
                /\ risk.label = "Medium" <=> (risk.score >= 25000 /\ risk.score < 50000)
                /\ risk.label = "High" <=> (risk.score >= 50000 /\ risk.score < 75000)
                /\ risk.label = "Critical" <=> risk.score >= 75000

\* A mean below 25 whose rounded score is 25.00, labelled Medium.
C9_Witness ==
    /\ pc = "evaluated"
    /\ locale = "ok"
    /\ Len(percentages) = 3
    /\ SumSeq(percentages) < 25000 * Len(percentages)
    /\ risk.score = 25000
    /\ risk.label = "Medium"

\* The label of the bucket of a score, as the language file names it.
BucketLabel(score) ==
    CASE score < 25000 -> "Low"
      [] score >= 25000 /\ score < 50000 -> "Medium"
      [] score >= 50000 /\ score < 75000 -> "High"
      [] OTHER -> "Critical"

\* C10, as stated: when the language file cannot be opened or decoded,
\* EvaluateRisk returns the empty label and a score it can return when the file
\* is available.
C10_DegradedLabels ==
    (pc = "evaluated" /\ percentages # <<>> /\ locale # "ok") =>
        /\ risk.label = ""
        /\ risk.score \in {r.score : r \in EvaluateRisk("ok", percentages)}

\* C10, corrected: when the language file cannot be opened or decoded,
\* EvaluateRisk still returns the mean rounded to two decimals as the score.
\* The label is empty when the file is missing or is not well-formed JSON; when
\* the file is well-formed and Decode fails on a value of the wrong type, the
\* label is the one the file gives for the bucket of the score, and empty only
\* when that label is itself the value of the wrong type.
C10_DegradedOrPartialLabels ==
    (pc = "evaluated" /\ percentages # <<>> /\ locale # "ok") =>
        LET n == Len(percentages)
            sum == SumSeq(percentages)
        IN /\ risk.score % 10 = 0
           /\ n * risk.score - sum <= 5 * n
           /\ sum - n * risk.score <= 5 * n
           /\ locale \in {"missing", "malformed"} => risk.label = ""
           /\ locale = "mistyped" => risk.label = BucketLabel(risk.score)
           /\ locale = "mistyped low" =>
                 risk.label = (IF risk.score < 25000 THEN "" ELSE BucketLabel(risk.score))

\* A Critical score evaluated on a language file that Decode rejects for a
\* value of the wrong type: the label of the file is returned.
C10_Witness ==
    /\ pc = "evaluated"
    /\ locale = "mistyped"
    /\ risk.score >= 75000
    /\ risk.label = "Critical"

\* C11: Percent returns 0 when total is 0; otherwise it returns the multiple of
\* 0.1 nearest to 100 * part / total, which is 25.0 for part 50 and total 200;
\* for 0 <= part <= total the result lies in [0, 100].
C11_PercentRounded ==
    pc = "percented" =>
        /\ percentTotal = 0 => percentResult = 0
        /\ percentTotal # 0 =>
              /\ percentResult % 100 = 0
              /\ percentResult * percentTotal - 100000 * percentPart <= 50 * percentTotal
              /\ 100000 * percentPart - percentResult * percentTotal <= 50 * percentTotal
        /\ (percentPart = 50 /\ percentTotal = 200) => percentResult = 25000
        /\ percentPart <= percentTotal => (percentResult >= 0 /\ percentResult <= 100000)

\* Two thirds, rounded up to 66.7.
C11_Witness ==
    /\ pc = "percented"
    /\ percentPart = 2
    /\ percentTotal = 3
    /\ percentResult = 66700

\* The colon-delimited fields of a line are one more than its colons.
Colons(line) == Cardinality({k \in 1..Len(line) : line[k] = ":"})

HasFourFields(line) == Colons(line) >= 3

\* The lines of the hash file with at least 4 fields, in order.
ValidRecords == SelectSeq(hashFile, HasFourFields)

\* The legacy-hash and primary-hash fields of a record.
LmOf(line) == Parts(line)[3]
NtlmOf(line) == Parts(line)[4]

\* The number of valid records whose primary-hash field is h.
Occurrences(h) ==
    Cardinality({k \in 1..Len(ValidRecords) : NtlmOf(ValidRecords[k]) = h})

\* The hash file has no line of 65536 bytes or more.
NoLongHashLine == \A k \in 1..Len(hashFile) : ~IsTooLong(hashFile[k])

BareName(account) ==
    CHOOSE b \in {SubSeq(account, k, Len(account)) : k \in 1..(Len(account) + 1)} :
        /\ \A k \in 1..Len(b) : b[k] # "\\"
        /\ Len(b) = Len(account) \/ account[Len(account) - Len(b)] = "\\"

\* The primary hash of the record is the hash of its bare account name.
PasswordIsName(line) ==
    /\ NtlmOf(line) # <<>>
    /\ ToLower(NtlmOf(line)) = ToLower(NtlmHash(BareName(Parts(line)[1])))

UnmaskedReuse == ScanLines(NewStats, passwordFile, minCharOccurences).Mostreuse

\* C17: MaskStats changes the keys of Mostreuse only: every entry's count is kept
\* under its masked key, so the counts of Mostreuse have the same sum before and
\* after, and nothing else of the statistics changes.
C17_MaskKeepsCounts ==
    pc = "masked" =>
        /\ SumMap(data.Mostreuse) = SumMap(UnmaskedReuse)
        /\ \E before \in AnalyzePasswords(passwordFile, minCharOccurences) :
             [data EXCEPT !.Mostreuse = UnmaskedReuse] = before.data

\* C18: every percentage main passes to EvaluateRisk lies in [0, 100], the four
\* of a run with a hash file and the three of a run without, and so does the
\* resulting GlobalPercent.
C18_PercentagesInRange ==
    pc = "risk" =>
        /\ Len(percentages) = IF data.Hashes.IsHash THEN 4 ELSE 3
        /\ \A k \in 1..Len(percentages) : percentages[k] >= 0 /\ percentages[k] <= 100000
        /\ data.GlobalPercent >= 0
        /\ data.GlobalPercent <= 100000

\* A run with a hash file of as many records as there are passwords: the crack
\* rate is 100 and the reuse rate is not.
C18_Witness ==
    /\ pc = "risk"
    /\ data.Hashes.IsHash
    /\ Len(percentages) = 4
    /\ percentages[4] = 100000
    /\ percentages[1] < 100000
    /\ data.GlobalPercent > 0

\* The outer loop of MergeIntoSmaller visits entry mergeI in this step.
Visiting == pc = "merging" /\ mergeI \in 1..Len(mergeEntities) /\ mergeI' = mergeI + 1

\* In this step entry i is absorbed into entry j: its count is added to j's
\* count and i is dropped.
Absorbed(i, j) ==
    /\ mergeSkip' = mergeSkip \cup {i}
    /\ mergeEntities' = [mergeEntities EXCEPT ![j].Value = @ + mergeEntities[i].Value]

\* The entries other than i, absorbed ones included, whose key is inside the
\* key of entry i.
KeysInside(i) ==
    {j \in 1..Len(mergeEntities) :
        j # i /\ Contains(mergeEntities[i].Key, mergeEntities[j].Key)}

\* The surviving entries other than i whose key has the key of entry i inside.
SurvivorsAround(i) ==
    {j \in 1..Len(mergeEntities) :
        j # i /\ j \notin mergeSkip /\ Contains(mergeEntities[j].Key, mergeEntities[i].Key)}

\* C19, as stated: when the pass visits an entry i whose key is a substring of
\* the key of another surviving entry, i is absorbed into such an entry j, so
\* that the containing key survives.
C19_ContainingKeySurvives ==
    [][(Visiting /\ SurvivorsAround(mergeI) # {}) =>
          \E j \in SurvivorsAround(mergeI) : Absorbed(mergeI, j)]_vars

\* C19, corrected: when the pass visits an entry i whose key contains the key of
\* another surviving entry, i is absorbed into the first such entry j in rank
\* order, so that the contained key survives; an entry whose key contains no
\* other surviving key is left as it is.
C19_ContainedKeySurvives ==
    [][Visiting =>
          LET inside == KeysInside(mergeI) \ mergeSkip
          IN IF inside = {}
             THEN mergeEntities' = mergeEntities /\ mergeSkip' = mergeSkip
             ELSE Absorbed(mergeI, Min(inside))]_vars

\* The pass is over; an entry was absorbed into an entry with a shorter key that
\* it contains, and no absorbed entry has a key inside the key of its survivor.
C19_Witness ==
    /\ pc = "merging"
    /\ mergeI = Len(mergeEntities) + 1
    /\ \E i \in mergeSkip : \E j \in KeysInside(i) \ mergeSkip :
         /\ Len(mergeEntities[j].Key) < Len(mergeEntities[i].Key)
         /\ mergeEntities[j].Value > MaxValue

\* C20, as stated: an absorbed entry remains eligible as a target: when the
\* first entry in rank order whose key is inside the key of the visited entry
\* has been absorbed already, the visited entry's count is added to it.
C20_AbsorbedStaysTarget ==
    [][(Visiting /\ KeysInside(mergeI) # {} /\ Min(KeysInside(mergeI)) \in mergeSkip) =>
          mergeEntities'[Min(KeysInside(mergeI))].Value =
              mergeEntities[Min(KeysInside(mergeI))].Value + mergeEntities[mergeI].Value]_vars

\* C20, corrected: an absorbed entry is used no more, as a source or as a
\* target: it stays dropped, its count never changes again, and the entry that
\* a step absorbs was not absorbed before.
C20_AbsorbedNeverUsed ==
    [][Visiting =>
          /\ \A j \in mergeSkip : j \in mergeSkip' /\ mergeEntities'[j] = mergeEntities[j]
          /\ mergeSkip' # mergeSkip => mergeI \notin mergeSkip]_vars

\* The third entry was absorbed although the first entry in rank order whose key
\* it contains, the first one, had been absorbed before: its count went to the
\* second.
C20_Witness ==
    /\ pc = "merging"
    /\ mergeI = 4
    /\ mergeSkip = {1, 3}
    /\ 1 \in KeysInside(3)
    /\ mergeEntities[1].Value <= MaxValue
    /\ mergeEntities[2].Value > MaxValue

\* The greatest Value among the entries, 0 when there is none.
MaxValueOf(entries) ==
    IF Len(entries) = 0 THEN 0
    ELSE CHOOSE v \in {entries[i].Value : i \in 1..Len(entries)} :
             \A i \in 1..Len(entries) : entries[i].Value <= v

\* The merged rankings the two strategies can produce for the scanned file.
StrategyA == {MergeIntoSmaller(a) : a \in SortMapByValueDesc(RawTokenCount)}

StrategyB ==
    {MergeIntoSmaller(b) :
        b \in SortMapByValueDesc(truncatedCounts(RawTokenCount, minCharOccurences))}

\* C21: the final token histogram is the result of the truncation strategy
\* exactly when the greatest count among its surviving entries is strictly
\* larger than the greatest count among the surviving entries of the plain
\* strategy, and the result of the plain strategy otherwise (a tie included).
C21_SelectsLargerMaximum ==
    Scanned =>
        \E a \in StrategyA, b \in StrategyB :
            data.TokenCount = EntriesToMap(IF MaxValueOf(b) > MaxValueOf(a) THEN b ELSE a)

(***************************************************************************)
(* AnalyzePasswords step by step: the scan of the file, the building of    *)
(* truncatedCounts, and the ranking, merging and selection.                *)
(***************************************************************************)
MaxScanLines == 2

\* Lines with no run, one run, two runs of one token, a run with leet and accented
\* characters, and runs that only differ by their case or their last character;
\* between them they use one, two, three and four classes of characters.
ScanLinesInput ==
    {<<>>,
     <<"a", "b", "c", "2", "a", "b", "i">>,
     <<"a", "b", "c", "d">>,
     <<"a", "b", "c", "d", "e", "#", "A", "B", "C", "D", "3">>,
     <<"a", "b", "c", "d", "e">>,
     <<"A", "B", "C", "D", "1">>,
     <<"#", "a", "b", "1", "$", "e'", "2">>,
     <<"P", "@", "s", "s", "w", "0", "r", "d">>,
     <<"#", "!", "$">>}

ScanFiles == SeqsUpTo(ScanLinesInput, MaxScanLines)

\* Files with a line of 65536 bytes: before a password, and between two.
LongLineScanFiles ==
    { <<LineOfLength(MaxScanTokenSize), <<"a", "b", "c", "d">>>>,
      <<<<"a", "b", "c", "d">>, LineOfLength(MaxScanTokenSize),
        <<"a", "b", "c", "d", "e">>>> }

InitScan ==
    /\ pc = "scan"
    /\ passwordFile = NoFile
    /\ minCharOccurences = 0
    /\ hashFile = NoFile
    /\ locale = "ok"
    /\ data = NewStats
    /\ err = ""
    /\ rerun = <<>>
    /\ token = <<>>
    /\ unleeted = <<>>
    /\ percentages = <<>>
    /\ risk = NoRisk
    /\ NoPercent
    /\ NoMerge
    /\ NoScan
    /\ NoOutput

\* The scanner loop, run until scanner.Scan() returns false.
ScanFile ==
    /\ pc = "scan"
    /\ \E file \in ScanFiles \cup LongLineScanFiles, min \in MinLengths :
         /\ passwordFile' = file
         /\ minCharOccurences' = min
         /\ data' = ScanLines(NewStats, file, min)
    /\ pc' = "scanned"
    /\ UNCHANGED <<hashFile, locale, err, rerun, token, unleeted, percentages, risk>>
    /\ UNCHANGED <<percentVars, mergeVars, scanVars, outVars>>

\* The loop that fills truncatedCounts.
BuildTruncatedCounts ==
    /\ pc = "scanned"
    /\ truncCounts' = truncatedCounts(data.TokenCount, minCharOccurences)
    /\ pc' = "truncated"
    /\ UNCHANGED <<passwordFile, minCharOccurences, hashFile, locale, data, err,
                   rerun, token, unleeted, percentages, risk>>
    /\ UNCHANGED <<percentVars, mergeVars, outVars>>

\* The two rankings, their merging, the selection, and the end of the function.
Consolidate ==
    /\ pc = "truncated"
    /\ \E a \in SortMapByValueDesc(data.TokenCount), b \in SortMapByValueDesc(truncCounts) :
         LET r == AnalyzeWith(passwordFile, minCharOccurences, a, b)
         IN /\ data' = r.data
            /\ err' = r.err
    /\ pc' = "consolidated"
    /\ UNCHANGED <<passwordFile, minCharOccurences, hashFile, locale,
                   rerun, token, unleeted, percentages, risk>>
    /\ UNCHANGED <<percentVars, mergeVars, scanVars, outVars>>

NextScan == ScanFile \/ BuildTruncatedCounts \/ Consolidate

SpecScan == InitScan /\ [][NextScan]_vars

\* Characters i..j of the line are a maximal run of at least 4 characters of the
\* restricted alphabet.
IsRun(line, i, j) ==
    /\ j - i + 1 >= 4
    /\ \A k \in i..j : InTokenClass(line[k])
    /\ i = 1 \/ ~InTokenClass(line[i - 1])
    /\ j = Len(line) \/ ~InTokenClass(line[j + 1])

\* The runs of the file, each named by its line and its two ends.
RunsOfFile ==
    LET inClass(n) == {k \in 1..Len(passwordFile[n]) : InTokenClass(passwordFile[n][k])}
        spans == UNION {{<<n, i, j>> : i, j \in inClass(n)} : n \in 1..Len(passwordFile)}
    IN {r \in spans : IsRun(passwordFile[r[1]], r[2], r[3])}

\* The lowercased and leet-normalized form of a run.
NormalizedRun(r) == Unleet(ToLower(SubSeq(passwordFile[r[1]], r[2], r[3])))

RunsRead == {r \in RunsOfFile : r[1] \in LinesBeforeLongLine}

LeetSuffixes == {"i", "e", "a", "s", "o"}

\* A key without its last character, when it has at least 5 characters and ends
\* in one of i, e, a, s, o.
SuffixTruncated(k) ==
    IF Len(k) >= 5 /\ k[Len(k)] \in LeetSuffixes THEN SubSeq(k, 1, Len(k) - 1) ELSE k

\* The key under which the count of raw key k is to be found.
KeyAfterTruncation(k) ==
    IF Len(SuffixTruncated(k)) >= minCharOccurences THEN SuffixTruncated(k) ELSE k

\* C23: the histogram the truncation strategy starts from holds, under each key,
\* the sum of the counts of the raw keys whose suffix-truncated form it is (or
\* which it is itself, when the truncated form is shorter than the minimum), and
\* has the same total as the raw histogram.
C23_TruncatedHistogram ==
    pc = "truncated" =>
        /\ DOMAIN truncCounts = {KeyAfterTruncation(k) : k \in DOMAIN data.TokenCount}
        /\ \A b \in DOMAIN truncCounts :
             truncCounts[b] =
                 SumMap(Restrict(data.TokenCount,
                     {k \in DOMAIN data.TokenCount : KeyAfterTruncation(k) = b}))
        /\ SumMap(truncCounts) = SumMap(data.TokenCount)

\* Two raw keys, abcde counted twice and abcdi once, both moved to abcd.
C23_Witness ==
    /\ pc = "truncated"
    /\ Cardinality(DOMAIN data.TokenCount) = 2
    /\ \E b \in DOMAIN truncCounts :
         /\ b \notin DOMAIN data.TokenCount
         /\ truncCounts[b] = 3
         /\ DOMAIN truncCounts = {b}

\* The symbols that occur in the pattern of a password.
PatternSymbols(line) ==
    LET pattern == PatternOf(line)
    IN {pattern[i] : i \in 1..Len(line)}

RepeatedLines ==
    {n \in 1..Len(passwordFile) :
        /\ passwordFile[n] # <<>>
        /\ \E m \in 1..Len(passwordFile) : m # n /\ passwordFile[m] = passwordFile[n]}

\* C26: after a successful AnalyzePasswords, CrackedReuseCount is the number of
\* lines whose password appears more than once (the sum of the occurrence counts
\* of those passwords), the reuse histogram sums to CrackedCount, and
\* CrackedReuseCount is neither 1 nor more than CrackedCount.
C26_ReuseCount ==
    (Scanned /\ err = "") =>
        /\ data.CrackedReuseCount = Cardinality(RepeatedLines)
        /\ SumMap(data.Mostreuse) = data.CrackedCount
        /\ data.CrackedReuseCount # 1
        /\ data.CrackedReuseCount <= data.CrackedCount

\* Three passwords, one of them on two lines.
C26_Witness ==
    /\ pc = "analyzed"
    /\ err = ""
    /\ data.CrackedCount = 3
    /\ data.CrackedReuseCount = 2
    /\ Cardinality(DOMAIN data.Mostreuse) = 2

(***************************************************************************)
(* MergeIntoSmaller on the entries of a histogram listed in any order.     *)
(***************************************************************************)
\* Every listing of the entries of m, sorted or not.
AnyOrder(m) ==
    LET n == Cardinality(DOMAIN m)
    IN {[i \in 1..n |-> Entry(s[i], m[s[i]])] :
           s \in {o \in [1..n -> DOMAIN m] : \A i, j \in 1..n : i # j => o[i] # o[j]}}

InitMergeAny ==
    /\ pc = "merge any"
    /\ passwordFile = NoFile
    /\ minCharOccurences = 0
    /\ hashFile = NoFile
    /\ locale = "ok"
    /\ data = NewStats
    /\ err = ""
    /\ rerun = <<>>
    /\ token = <<>>
    /\ unleeted = <<>>
    /\ percentages = <<>>
    /\ risk = NoRisk
    /\ NoPercent
    /\ NoMerge
    /\ NoScan
    /\ NoOutput

\* MergeIntoSmaller called with the entries of a histogram in some order, up to
\* the outer loop; the histogram is kept in data.TokenCount.
CallMergeAnyOrder ==
    /\ pc = "merge any"
    /\ \E m \in MergeMaps :
         /\ mergeEntities' \in AnyOrder(m)
         /\ data' = [data EXCEPT !.TokenCount = m]
    /\ mergeSkip' = {}
    /\ mergeI' = 1
    /\ pc' = "merging"
    /\ UNCHANGED <<passwordFile, minCharOccurences, hashFile, locale, err,
                   rerun, token, unleeted, percentages, risk>>
    /\ UNCHANGED <<percentVars, scanVars, outVars>>

NextMergeAny == CallMergeAnyOrder \/ MergeIteration \/ CollectRemaining

SpecMergeAny == InitMergeAny /\ [][NextMergeAny]_vars

\* The keys of the entries MergeIntoSmaller returned.
SurvivingKeys == {mergeEntities[i].Key : i \in 1..Len(mergeEntities)}

\* The keys of the input that contain no other key of the input.
MinimalKeys ==
    {k \in DOMAIN data.TokenCount :
        \A k2 \in DOMAIN data.TokenCount : k2 # k => ~Contains(k, k2)}

\* C27: whatever the order of the entries given to MergeIntoSmaller, the keys it
\* returns are the input keys that contain no other input key, each once; the
\* result is empty only for an empty input; and no returned entry has a count
\* below the count it came in with.
C27_SurvivorsAreMinimalKeys ==
    pc = "merged" =>
        /\ SurvivingKeys = MinimalKeys
        /\ Len(mergeEntities) = Cardinality(SurvivingKeys)
        /\ (DOMAIN data.TokenCount # {} => mergeEntities # <<>>)
        /\ \A i \in 1..Len(mergeEntities) :
             mergeEntities[i].Value >= data.TokenCount[mergeEntities[i].Key]

\* Four keys of which two are left; the first of them came in with a smaller
\* count than the second, so the input was not sorted, and it has gained counts.
C27_Witness ==
    /\ pc = "merged"
    /\ Cardinality(DOMAIN data.TokenCount) = 4
    /\ Len(mergeEntities) = 2
    /\ data.TokenCount[mergeEntities[1].Key] < data.TokenCount[mergeEntities[2].Key]
    /\ mergeEntities[1].Value > data.TokenCount[mergeEntities[1].Key]

(***************************************************************************)
(* The part of main that writes the reports: InsertStats, LoadLabels, the  *)
(* logos and the loop over the output types, on a run without -H and       *)
(* without -anon.  The output directory is new and the program is run from *)
(* the directory of its executable; the language file, the logo, the       *)
(* templates, the headless browser and the creation of a file may fail.    *)
(***************************************************************************)
MaxTop == 2
MaxOutputs == 2

\* The default of the -min flag.
DefaultMin == 5

\* The output types of the switch of main, and one it does not know.
text == <<"t", "e", "x", "t">>
html == <<"h", "t", "m", "l">>
excel == <<"e", "x", "c", "e", "l">>
screenshot == <<"s", "c", "r", "e", "e", "n", "s", "h", "o", "t">>
pdf == <<"p", "d", "f">>
all == <<"a", "l", "l">>
csv == <<"c", "s", "v">>

\* strings.Join(types, ","): a list of output types as it is given to -f.
RECURSIVE JoinComma(_)
JoinComma(types) ==
    IF Len(types) = 0 THEN <<>>
    ELSE IF Len(types) = 1 THEN types[1]
         ELSE types[1] \o <<",">> \o JoinComma(Tail(types))

\* What the user can write between the commas: a type, also after a space.
OutputNames == {text, html, <<" ">> \o html, excel, screenshot, pdf, all, csv}

OutputTypeArgs == {JoinComma(l) : l \in SeqsUpTo(OutputNames, MaxOutputs)}

SplitOutputTypes(raw) ==
    LET parts == Split(raw, ",")
    IN [n \in 1..Len(parts) |-> TrimSpace(parts[n])]

\* Password files with two, one and no token of the default minimum length, and
\* one with more tokens than patterns.
OutputFiles ==
    { << <<"a", "b", "c", "d", "e">>, <<"A", "B", "C", "D", "1">> >>,
      << <<"a", "b", "c", "d", "e">>, <<"a", "b", "c", "d", "e">>, <<"e'", "1", "#">> >>,
      << <<"e'", "1", "#">>, <<"1", "2", "3">> >>,
      << <<"a", "b", "c", "d", "e", "#", "f", "g", "h", "i", "j">>,
         <<"f", "g", "h", "i", "j", "#", "a", "b", "c", "d", "e">> >> }

\* The files the program writes.
TmpJson == "tmp-lang.json"
ReportTxt == "report.txt"
ReportHtml == "report.html"
ReportXlsx == "report.xlsx"
ReportPdf == "report.pdf"
Screenshots == "screenshots"

\* The list charts of ToPNG, by the IDs of the charts: chart-top-passwords is in
\* it when the token histogram has more than one key.
charts(stats) ==
    <<"chart-length", "chart-complexity">>
        \o (IF Cardinality(DOMAIN stats.TokenCount) > 1 THEN <<"chart-top-passwords">>
            ELSE <<>>)
        \o <<"chart-patterns", "chart-reused", "chart-mostreused">>

\* chart.File: the PNG file of a chart, which the labels of the language file
\* name (Length.A1, Complexity.A1, Occurrences.A1, Pattern.A1, Reuse.Short and
\* Mostreuse.Short, all different in the language files of the program).
ChartFile(id) ==
    CASE id = "chart-length" -> "screenshots/chart-Length.png"
      [] id = "chart-complexity" -> "screenshots/chart-Complexity.png"
      [] id = "chart-top-passwords" -> "screenshots/chart-Occurrences.png"
      [] id = "chart-patterns" -> "screenshots/chart-Pattern.png"
      [] id = "chart-reused" -> "screenshots/chart-Reuse.png"
      [] id = "chart-mostreused" -> "screenshots/chart-Mostreuse.png"

\* How a step of the loop can stop the program.
Fatal == "fatal"
Panic == "panic"

\* data.Stats and the outcome of EvaluateRisk when main reaches MaskStats, for a
\* password file that AnalyzePasswords accepts.
AnalyzedStats(file, min, loc) ==
    UNION {LET d == [r.data EXCEPT
                       !.Hashes.TotalNTLMHashes = r.data.CrackedCount,
                       !.Hashes.ReusedNTLMHashes = r.data.CrackedReuseCount,
                       !.Hashes.UniqueNTLMHashes =
                           r.data.CrackedCount - r.data.CrackedReuseCount,
                       !.Hashes.IsHash = FALSE]
           IN {[stats |-> [d EXCEPT !.Risk = k.label, !.GlobalPercent = k.score],
                percentages |-> RiskInputs(d),
                risk |-> k] : k \in EvaluateRisk(loc, RiskInputs(d))} :
           r \in {x \in AnalyzePasswords(file, min) : x.err = ""}}

\* The five numbers of the length section of the text and Excel reports.
LengthBuckets(stats) ==
    <<SumLengthRange(stats.Lengths, 0, 7),
      Get(stats.Lengths, 8),
      Get(stats.Lengths, 9),
      Get(stats.Lengths, 10),
      SumLengthRange(stats.Lengths, 11, 100)>>

\* The state of the disk and of report.txt during a step of the loop, and the
\* way the step has stopped the program, "" while it has not.
Running(f, r) == [files |-> f, report |-> r, exit |-> ""]

\* The outcomes of S followed by Step, for those that have not stopped.
Then(S, Step(_)) == UNION {IF o.exit = "" THEN Step(o) ELSE {o} : o \in S}

\* sorted[:n] panics when n exceeds the capacity of the slice, which for the
\* slices of SortMapByValueDesc is their length.
SliceOutOfRange(sorted, n) == n > Len(sorted)

\* export.ToText(stats, outputDir, top, labels); when report.txt cannot be
\* created it returns the error, which main does not look at.
ToText(stats, n, o) ==
    LET created == [o EXCEPT !.files = @ \cup {ReportTxt},
                             !.report = [NoReport EXCEPT !.lengths = LengthBuckets(stats)]]
        Words(x) ==
            {IF SliceOutOfRange(s, n) THEN [x EXCEPT !.exit = Panic]
             ELSE [x EXCEPT !.report.words = SubSeq(s, 1, n)] :
                s \in SortMapByValueDesc(stats.TokenCount)}
        Patterns(x) ==
            {IF SliceOutOfRange(s, n) THEN [x EXCEPT !.exit = Panic]
             ELSE [x EXCEPT !.report.patterns = SubSeq(s, 1, n)] :
                s \in SortMapByValueDesc(stats.Patterns)}
        Reuse(x) ==
            {IF SliceOutOfRange(s, n) THEN [x EXCEPT !.exit = Panic]
             ELSE [x EXCEPT !.report.reuse = SubSeq(s, 1, n)] :
                s \in SortMapByValueDesc(stats.Mostreuse)}
    IN Then(Then(Words(created), Patterns), Reuse) \cup {o}

\* export.ToHtml: the template is parsed (template.Must panics when that
\* fails), report.html is created (panic(err) when that fails), then the
\* template is executed (log.Fatalf when that fails).
ToHtml(o) ==
    LET created == [o EXCEPT !.files = @ \cup {ReportHtml}]
    IN {[o EXCEPT !.exit = Panic], created, [created EXCEPT !.exit = Fatal]}

\* export.ToPDF: report.html is read and printed by the browser.
ToPDF(o) ==
    IF ReportHtml \notin o.files THEN {[o EXCEPT !.exit = Fatal]}
    ELSE {[o EXCEPT !.files = @ \cup {ReportPdf}], [o EXCEPT !.exit = Fatal]}

\* export.ToExcel
ToExcel(o) == {[o EXCEPT !.files = @ \cup {ReportXlsx}], [o EXCEPT !.exit = Fatal]}

\* os.Mkdir(outputDir + "/screenshots") and the test of its error: an error
\* other than "already exists" is fatal.
MkdirScreenshots(o) ==
    {[o EXCEPT !.files = @ \cup {Screenshots}]}
        \cup (IF Screenshots \in o.files THEN {} ELSE {[o EXCEPT !.exit = Fatal]})

\* export.ToPNG as far as its loop: report.html must be there, it is read, and
\* the browser loads it and waits for the charts; each of these can fail, and
\* nothing is written yet.
ToPNG(o) ==
    IF ReportHtml \notin o.files THEN {[o EXCEPT !.exit = Fatal]}
    ELSE {o, [o EXCEPT !.exit = Fatal]}

\* One iteration of the loop of ToPNG: the browser captures the chart, which
\* can fail, and os.WriteFile writes the PNG, which can fail before or after
\* the file is created.
Screenshot(chart, o) ==
    LET written == [o EXCEPT !.files = @ \cup {ChartFile(chart)}]
    IN {[o EXCEPT !.exit = Fatal], [written EXCEPT !.exit = Fatal], written}

\* os.Remove(outputDir + "/report.html") of the pdf case.
RemoveHtml(o) ==
    IF ReportHtml \in o.files THEN {[o EXCEPT !.files = @ \ {ReportHtml}]}
    ELSE {[o EXCEPT !.exit = Fatal]}

\* The calls of the cases of the switch of main, in their order; none for an
\* output type the switch does not know.  In the case "all" main sleeps two
\* seconds before each export, and in the case "pdf" report.html is on disk
\* from ToHtml until os.Remove.
CaseCalls(output) ==
    CASE output = text -> <<"ToText">>
      [] output = html -> <<"ToHtml">>
      [] output = excel -> <<"ToExcel">>
      [] output = screenshot -> <<"Mkdir", "ToPNG">>
      [] output = pdf -> <<"ToHtml", "ToPDF", "Remove">>
      [] output = all -> <<"Mkdir", "ToText", "ToHtml", "ToPDF", "ToExcel", "ToPNG">>
      [] OTHER -> <<>>

\* One call of a case of the switch, or one iteration of the loop of ToPNG,
\* named by its chart.
Call(name, stats, n, o) ==
    CASE name = "ToText" -> ToText(stats, n, o)
      [] name = "ToHtml" -> ToHtml(o)
      [] name = "ToExcel" -> ToExcel(o)
      [] name = "ToPDF" -> ToPDF(o)
      [] name = "ToPNG" -> ToPNG(o)
      [] name = "Mkdir" -> MkdirScreenshots(o)
      [] name = "Remove" -> RemoveHtml(o)
      [] OTHER -> Screenshot(name, o)

\* What is left to do after a call that has not stopped the program: after
\* the first part of ToPNG the iterations of its loop, one for each chart, and
\* then the rest of the case.
RestOfCase(current, stats) ==
    IF Head(current) = "ToPNG" THEN charts(stats) \o Tail(current) ELSE Tail(current)

InitOutput ==
    /\ pc = "output"
    /\ passwordFile = NoFile
    /\ minCharOccurences = 0
    /\ hashFile = NoFile
    /\ locale = "ok"
    /\ data = NewStats
    /\ err = ""
    /\ rerun = <<>>
    /\ token = <<>>
    /\ unleeted = <<>>
    /\ percentages = <<>>
    /\ risk = NoRisk
    /\ NoPercent
    /\ NoMerge
    /\ NoScan
    /\ NoOutput

\* main from the flags to MaskStats, for a password file it accepts.
StartOutput ==
    /\ pc = "output"
    /\ \E file \in OutputFiles, loc \in Locales, f \in OutputTypeArgs, n \in 0..MaxTop :
         /\ passwordFile' = file
         /\ minCharOccurences' = DefaultMin
         /\ locale' = loc
         /\ outputTypes' = f
         /\ top' = n
         /\ \E a \in AnalyzedStats(file, DefaultMin, loc) :
              /\ data' = a.stats
              /\ percentages' = a.percentages
              /\ risk' = a.risk
    /\ pc' = "insert"
    /\ UNCHANGED <<hashFile, err, rerun, token, unleeted, outputs, files, report, calls>>
    /\ UNCHANGED <<percentVars, mergeVars, scanVars>>

\* utils.InsertStats and the test of its error.  Without the language file
\* nothing is written.  The language file is parsed as a template, and
\* ttemplate.Must panics when it is malformed: nothing is written, and the
\* deferred function of main runs.  Then tmp-<lang>.json is created, which can
\* fail, and the template is executed into it, which a malformed language
\* file can make fail too; both errors are fatal in main.
CallInsertStats ==
    /\ pc = "insert"
    /\ \/ /\ locale = "missing"
          /\ pc' = "fatal"
          /\ err' = "Language file not found"
          /\ UNCHANGED files
       \/ /\ locale = "malformed"
          /\ pc' = "panicked"
          /\ err' = Panic
          /\ files' = files \ {TmpJson}
       \/ /\ locale # "missing"
          /\ pc' = "fatal"
          /\ err' = "Error templating json file"
          /\ UNCHANGED files
       \/ /\ locale = "malformed"
          /\ files' = files \cup {TmpJson}
          /\ pc' = "fatal"
          /\ err' = "Error templating json file"
       \/ /\ locale # "missing"
          /\ files' = files \cup {TmpJson}
          /\ pc' = "labels"
          /\ UNCHANGED err
    /\ UNCHANGED <<passwordFile, minCharOccurences, hashFile, locale, data, rerun,
                   token, unleeted, percentages, risk, outputTypes, top, outputs, report,
                   calls>>
    /\ UNCHANGED <<percentVars, mergeVars, scanVars>>

\* utils.LoadLabels and the test of its error: tmp-<lang>.json is opened and
\* decoded, which fails when it is not JSON or has a value of the wrong type
\* (the template copies the values of the language file).
CallLoadLabels ==
    /\ pc = "labels"
    /\ IF TmpJson \notin files \/ locale # "ok"
       THEN /\ pc' = "fatal"
            /\ err' = "Error loading language file"
       ELSE /\ pc' = "logos"
            /\ UNCHANGED err
    /\ UNCHANGED <<passwordFile, minCharOccurences, hashFile, locale, data, rerun,
                   token, unleeted, percentages, risk>>
    /\ UNCHANGED <<percentVars, mergeVars, scanVars, outVars>>

\* The logos: the file of -L is read, which can fail; then the loop starts.
LoadLogos ==
    /\ pc = "logos"
    /\ \E readable \in BOOLEAN :
         IF readable
         THEN /\ pc' = "export"
              /\ outputs' = SplitOutputTypes(outputTypes)
              /\ UNCHANGED err
         ELSE /\ pc' = "fatal"
              /\ err' = "Error loading logo"
              /\ UNCHANGED outputs
    /\ UNCHANGED <<passwordFile, minCharOccurences, hashFile, locale, data, rerun,
                   token, unleeted, percentages, risk, outputTypes, top, files, report,
                   calls>>
    /\ UNCHANGED <<percentVars, mergeVars, scanVars>>

\* The next call of the loop over the output types: the first call of the
\* case of the next output type, or the next call of the case main is in.
\* log.Fatalf ends the process at once; a panic runs the deferred removal of
\* tmp-<lang>.json first.  calls keeps the call that stopped the program.
GenerateOutput ==
    /\ pc = "export"
    /\ (calls # <<>> \/ outputs # <<>>)
    /\ LET current == IF calls # <<>> THEN calls ELSE CaseCalls(Head(outputs))
       IN IF current = <<>>
          THEN /\ pc' = "fatal"
               /\ err' = "Unknown output type"
               /\ UNCHANGED <<outputs, files, report, calls>>
          ELSE \E o \in Call(Head(current), data, top, Running(files, report)) :
                 /\ report' = o.report
                 /\ err' = o.exit
                 /\ CASE o.exit = "" ->
                           /\ files' = o.files
                           /\ calls' = RestOfCase(current, data)
                           /\ outputs' = IF RestOfCase(current, data) = <<>>
                                         THEN Tail(outputs)
                                         ELSE outputs
                           /\ pc' = "export"
                      [] o.exit = Fatal ->
                           /\ files' = o.files
                           /\ calls' = current
                           /\ UNCHANGED outputs
                           /\ pc' = "fatal"
                      [] o.exit = Panic ->
                           /\ files' = o.files \ {TmpJson}
                           /\ calls' = current
                           /\ UNCHANGED outputs
                           /\ pc' = "panicked"
    /\ UNCHANGED <<passwordFile, minCharOccurences, hashFile, locale, data, rerun,
                   token, unleeted, percentages, risk, outputTypes, top>>
    /\ UNCHANGED <<percentVars, mergeVars, scanVars>>

\* The end of main: the deferred function removes tmp-<lang>.json.
ReturnFromMain ==
    /\ pc = "export"
    /\ outputs = <<>>
    /\ calls = <<>>
    /\ files' = files \ {TmpJson}
    /\ pc' = "returned"
    /\ UNCHANGED <<passwordFile, minCharOccurences, hashFile, locale, data, err, rerun,
                   token, unleeted, percentages, risk, outputTypes, top, outputs, report,
                   calls>>
    /\ UNCHANGED <<percentVars, mergeVars, scanVars>>

NextOutput ==
    \/ StartOutput
    \/ CallInsertStats
    \/ CallLoadLabels
    \/ LoadLogos
    \/ GenerateOutput
    \/ ReturnFromMain

SpecOutput == InitOutput /\ [][NextOutput]_vars

\* main has ended: by returning, by log.Fatalf, or by a panic.
Terminated == pc \in {"returned", "fatal", "panicked"}

\* C25: however main ends once InsertStats has created tmp-<lang>.json, by
\* returning or on a fatal error (labels, logo, unknown output type, failed
\* export), the temporary file is no longer on disk.
C25_TempFileRemoved == Terminated => TmpJson \notin files

(***************************************************************************)
(* The length section of the reports, for passwords of every length.       *)
(***************************************************************************)
MaxLengthLines == 2

\* A password of n characters.
PasswordOfLength(n) == [i \in 1..n |-> "x"]

\* Passwords at the edges of the five buckets, and a blank line.
LengthLines == {PasswordOfLength(n) : n \in {0, 1, 7, 8, 9, 10, 11, 100, 101}}

LengthFiles == SeqsUpTo(LengthLines, MaxLengthLines)

InitLengths ==
    /\ pc = "lengths"
    /\ passwordFile = NoFile
    /\ minCharOccurences = 0
    /\ hashFile = NoFile
    /\ locale = "ok"
    /\ data = NewStats
    /\ err = ""
    /\ rerun = <<>>
    /\ token = <<>>
    /\ unleeted = <<>>
    /\ percentages = <<>>
    /\ risk = NoRisk
    /\ NoPercent
    /\ NoMerge
    /\ NoScan
    /\ NoOutput

\* main as far as the reports, for a password file AnalyzePasswords accepts.
CountLengths ==
    /\ pc = "lengths"
    /\ \E file \in LengthFiles :
         /\ passwordFile' = file
         /\ minCharOccurences' = DefaultMin
         /\ \E r \in AnalyzePasswords(file, DefaultMin) :
              /\ r.err = ""
              /\ data' = r.data
    /\ pc' = "lengths counted"
    /\ UNCHANGED <<hashFile, locale, err, rerun, token, unleeted, percentages, risk>>
    /\ UNCHANGED <<percentVars, mergeVars, scanVars, outVars>>

\* The length section as ToText and ToExcel write it.
WriteLengths ==
    /\ pc = "lengths counted"
    /\ report' = [report EXCEPT !.lengths = LengthBuckets(data)]
    /\ pc' = "lengths written"
    /\ UNCHANGED <<passwordFile, minCharOccurences, hashFile, locale, data, err, rerun,
                   token, unleeted, percentages, risk, outputTypes, top, outputs, files,
                   calls>>
    /\ UNCHANGED <<percentVars, mergeVars, scanVars>>

NextLengths == CountLengths \/ WriteLengths

SpecLengths == InitLengths /\ [][NextLengths]_vars

\* C28: the five numbers of the length section (7 or fewer, 8, 9, 10, more than
\* 10) add up to CrackedCount: every password is in one of the five buckets.
C28_BucketsSumToCrackedCount ==
    pc = "lengths written" => SumSeq(report.lengths) = data.CrackedCount

\* The output types main was asked for.
Requested == {SplitOutputTypes(outputTypes)[k] : k \in 1..Len(SplitOutputTypes(outputTypes))}

\* The PNG files of the charts of the statistics.
ChartPngs == {ChartFile(charts(data)[k]) : k \in 1..Len(charts(data))}

\* The files a run that was asked for the output type t is to leave.
ReportFilesOf(t) ==
    CASE t = text -> {ReportTxt}
      [] t = html -> {ReportHtml}
      [] t = excel -> {ReportXlsx}
      [] t = pdf -> {ReportPdf}
      [] t = screenshot -> ChartPngs
      [] t = all -> {ReportTxt, ReportHtml, ReportPdf, ReportXlsx} \cup ChartPngs
      [] OTHER -> {}

\* C29: when main returns, the report files of every requested output type are
\* in the output directory, report.html included when html was requested next
\* to pdf; and whenever the loop comes to a screenshot step, report.html is
\* there for it.
C29_RequestedReportsExist ==
    /\ pc = "returned" => \A t \in Requested : ReportFilesOf(t) \subseteq files
    /\ (pc = "export" /\ outputs # <<>> /\ Head(outputs) = screenshot) => ReportHtml \in files

\* The number of rows ToText is to write for a histogram: top of them, or all of
\* its entries when it has fewer.
RowsExpected(m) == Min({top, Cardinality(DOMAIN m)})

\* C30: for every Stats of a successful analysis and every top >= 0, ToText ends
\* without a runtime failure, and report.txt lists min(top, number of entries)
\* rows of the token, the pattern and the reused-password histogram.
C30_ToTextCompletes ==
    /\ ~(pc = "panicked" /\ calls # <<>> /\ Head(calls) = "ToText")
    /\ (pc \in {"export", "returned"} /\ ReportTxt \in files) =>
          /\ Len(report.words) = RowsExpected(data.TokenCount)
          /\ Len(report.patterns) = RowsExpected(data.Patterns)
          /\ Len(report.reuse) = RowsExpected(data.Mostreuse)

====
